---- MODULE Spec2Model ----
(***************************************************************************)
(* StudySpark: the storage repository (MemStorage and DatabaseStorage of   *)
(* server/services/groq.ts), the dashboard aggregation and the batch       *)
(* creation used by the AI routes.                                         *)
(*                                                                         *)
(* Identifiers are strings (UUIDs) in the program and positive integers    *)
(* here; 0 is an identifier that is never generated.  A Map is a function  *)
(* whose domain is the set of stored keys.  An optional value (undefined,  *)
(* or the first row of a query result) is a sequence of length 0 or 1.     *)
(***************************************************************************)
EXTENDS Integers, Sequences, FiniteSets, TLC

\* ---------------------------------------------------------------- bounds
MaxSubjects == 2
MaxRecords == 2
MaxBatch == 2
MaxReviews == 1
MaxPlans == 2
MaxPatches == 2
MaxClock == 1
MaxRequests == 2

\* upcomingTasks.slice(0, 5)
UpcomingLimit == 5

\* summaries.slice(0, 5) and .limit(5)
RecentLimit == 5

MaxSummaries == 6

MaxPerTick == 3

MaxCards == 11

MaxQuestions == 9

MaxStored == 3

MaxUpdates == 2
MaxInFlight == 4

VARIABLES
  backend,      \* "mem" | "db": which IStorage is exported as storage
  subjects,     \* Map id -> Subject
  notes,        \* Map id -> Note
  summaries,    \* Map id -> Summary
  flashcards,   \* Map id -> Flashcard
  questions,    \* Map id -> Question
  studyPlans,   \* sequence of StudyPlan, in insertion order
  nextId,       \* per collection, the next identifier randomUUID() yields
  now,          \* the clock new Date() reads
  ret,          \* the last storage call: its name, the id it is about, its result
  noteLog,      \* history: per subject, createNote and deleteNote calls
  patched,      \* history: number of task patches made so far
  pending,      \* per request, the DatabaseStorage call that is under way
  raced,        \* history: subjects read by one call while another call had
                \* read them and not yet written
  page          \* the upload page of the client: its state and what it awaits

\* What a storage call made alone, from start to end, never touches, and the
\* client's page
aux == <<pending, raced, page>>

vars == <<backend, subjects, notes, summaries, flashcards, questions,
          studyPlans, nextId, now, ret, noteLog, patched, pending, raced, page>>

\* ------------------------------------------------------------ Map helpers
EmptyMap == [x \in {} |-> 0]

MapSet(m, k, v) == [x \in (DOMAIN m) \cup {k} |-> IF x = k THEN v ELSE m[x]]

MapDelete(m, k) == [x \in (DOMAIN m) \ {k} |-> m[x]]

MapGet(m, k) == IF k \in DOMAIN m THEN <<m[k]>> ELSE <<>>

\* { ...obj, ...data }: the fields of data override those of obj
Spread(obj, data) ==
  [f \in (DOMAIN obj) \cup (DOMAIN data) |->
     IF f \in DOMAIN data THEN data[f] ELSE obj[f]]

MathMax(a, b) == IF a >= b THEN a ELSE b

\* The six collections as one value, so that an operation is a function
\* from store to store.
Store ==
  [subjects |-> subjects, notes |-> notes, summaries |-> summaries,
   flashcards |-> flashcards, questions |-> questions,
   studyPlans |-> studyPlans]

SetStore(st) ==
  /\ subjects' = st.subjects
  /\ notes' = st.notes
  /\ summaries' = st.summaries
  /\ flashcards' = st.flashcards
  /\ questions' = st.questions
  /\ studyPlans' = st.studyPlans

EmptyStore ==
  [subjects |-> EmptyMap, notes |-> EmptyMap, summaries |-> EmptyMap,
   flashcards |-> EmptyMap, questions |-> EmptyMap, studyPlans |-> <<>>]

\* ------------------------------------------------- MemStorage: subjects
MemCreateSubject(st, data, id) ==
  [st EXCEPT !.subjects =
     MapSet(@, id, [id |-> id, name |-> data.name, notesCount |-> 0,
                    flashcardsCount |-> 0, questionsCount |-> 0])]

\* A variant of updateSubject that stores the data under an id it misses
MemUpdateSubjectUpserts(st, id, data) ==
  IF id \in DOMAIN st.subjects
  THEN [st EXCEPT !.subjects = MapSet(@, id, Spread(st.subjects[id], data))]
  ELSE [st EXCEPT !.subjects = MapSet(@, id, data)]

MemUpdateSubject(st, id, data) ==
  IF id \notin DOMAIN st.subjects THEN st
  ELSE [st EXCEPT !.subjects = MapSet(@, id, Spread(st.subjects[id], data))]

MemRemoveOf(m, id) == [k \in {x \in DOMAIN m : m[x].subjectId # id} |-> m[k]]

\* deleteSubject whose cascade leaves the summaries out
MemDeleteSubjectKeepsSummaries(st, id) ==
  [st EXCEPT !.notes = MemRemoveOf(@, id),
             !.flashcards = MemRemoveOf(@, id),
             !.questions = MemRemoveOf(@, id),
             !.subjects = MapDelete(@, id)]

MemDeleteSubject(st, id) ==
  [st EXCEPT !.notes = MemRemoveOf(@, id),
             !.summaries = MemRemoveOf(@, id),
             !.flashcards = MemRemoveOf(@, id),
             !.questions = MemRemoveOf(@, id),
             !.subjects = MapDelete(@, id)]

\* ---------------------------------------------------- MemStorage: notes
MemCreateNote(st, data, id) ==
  LET st1 == [st EXCEPT !.notes =
                MapSet(@, id, [id |-> id, subjectId |-> data.subjectId])]
      subject == MapGet(st1.subjects, data.subjectId)
  IN IF subject # <<>>
     THEN [st1 EXCEPT !.subjects =
             MapSet(@, data.subjectId,
                    Spread(subject[1],
                           [notesCount |-> subject[1].notesCount + 1]))]
     ELSE st1

\* deleteNote without the counter update
MemDeleteNoteKeepsCount(st, id) == [st EXCEPT !.notes = MapDelete(@, id)]

MemDeleteNote(st, id) ==
  LET note == MapGet(st.notes, id)
      subject == IF note # <<>> THEN MapGet(st.subjects, note[1].subjectId)
                 ELSE <<>>
      st1 == IF subject # <<>>
             THEN [st EXCEPT !.subjects =
                     MapSet(@, note[1].subjectId,
                            Spread(subject[1],
                                   [notesCount |->
                                      MathMax(0, subject[1].notesCount - 1)]))]
             ELSE st
  IN [st1 EXCEPT !.notes = MapDelete(@, id)]

\* ------------------------------------------------ MemStorage: summaries
MemCreateSummary(st, data, id, clock) ==
  [st EXCEPT !.summaries =
     MapSet(@, id, [id |-> id, noteId |-> data.noteId,
                    subjectId |-> data.subjectId,
                    fullSummary |-> data.fullSummary, createdAt |-> clock])]

MemDeleteSummary(st, id) == [st EXCEPT !.summaries = MapDelete(@, id)]

\* ----------------------------------------------- MemStorage: flashcards
\* createFlashcard setting the flashcard and leaving the subject's counter
\* as it was
MemCreateFlashcardUncounted(st, data, id) ==
  [st EXCEPT !.flashcards =
     MapSet(@, id, [id |-> id, subjectId |-> data.subjectId,
                    difficulty |-> data.difficulty, timesReviewed |-> 0])]

MemCreateFlashcard(st, data, id) ==
  LET st1 == [st EXCEPT !.flashcards =
                MapSet(@, id, [id |-> id, subjectId |-> data.subjectId,
                               difficulty |-> data.difficulty,
                               timesReviewed |-> 0])]
      subject == MapGet(st1.subjects, data.subjectId)
  IN IF subject # <<>>
     THEN [st1 EXCEPT !.subjects =
             MapSet(@, data.subjectId,
                    Spread(subject[1],
                           [flashcardsCount |->
                              subject[1].flashcardsCount + 1]))]
     ELSE st1

\* for (const item of data) await this.createFlashcard(item)
RECURSIVE MemCreateFlashcards(_, _, _)
MemCreateFlashcards(st, data, ids) ==
  IF data = <<>> THEN st
  ELSE MemCreateFlashcards(MemCreateFlashcard(st, Head(data), Head(ids)),
                           Tail(data), Tail(ids))

MemUpdateFlashcard(st, id, data, clock) ==
  IF id \notin DOMAIN st.flashcards THEN st
  ELSE [st EXCEPT !.flashcards =
          MapSet(@, id,
                 Spread(Spread(st.flashcards[id], data),
                        [lastReviewed |-> clock,
                         timesReviewed |->
                           st.flashcards[id].timesReviewed + 1]))]

\* deleteFlashcard without Math.max(0, ...)
MemDeleteFlashcardNoFloor(st, id) ==
  LET flashcard == MapGet(st.flashcards, id)
      subject == IF flashcard # <<>>
                 THEN MapGet(st.subjects, flashcard[1].subjectId)
                 ELSE <<>>
      st1 == IF subject # <<>>
             THEN [st EXCEPT !.subjects =
                     MapSet(@, flashcard[1].subjectId,
                            Spread(subject[1],
                                   [flashcardsCount |->
                                      subject[1].flashcardsCount - 1]))]
             ELSE st
  IN [st1 EXCEPT !.flashcards = MapDelete(@, id)]

MemDeleteFlashcard(st, id) ==
  LET flashcard == MapGet(st.flashcards, id)
      subject == IF flashcard # <<>>
                 THEN MapGet(st.subjects, flashcard[1].subjectId)
                 ELSE <<>>
      st1 == IF subject # <<>>
             THEN [st EXCEPT !.subjects =
                     MapSet(@, flashcard[1].subjectId,
                            Spread(subject[1],
                                   [flashcardsCount |->
                                      MathMax(0, subject[1].flashcardsCount - 1)]))]
             ELSE st
  IN [st1 EXCEPT !.flashcards = MapDelete(@, id)]

\* ------------------------------------------------ MemStorage: questions
MemCreateQuestion(st, data, id) ==
  LET st1 == [st EXCEPT !.questions =
                MapSet(@, id, [id |-> id, subjectId |-> data.subjectId])]
      subject == MapGet(st1.subjects, data.subjectId)
  IN IF subject # <<>>
     THEN [st1 EXCEPT !.subjects =
             MapSet(@, data.subjectId,
                    Spread(subject[1],
                           [questionsCount |->
                              subject[1].questionsCount + 1]))]
     ELSE st1

RECURSIVE MemCreateQuestions(_, _, _)
MemCreateQuestions(st, data, ids) ==
  IF data = <<>> THEN st
  ELSE MemCreateQuestions(MemCreateQuestion(st, Head(data), Head(ids)),
                          Tail(data), Tail(ids))

MemDeleteQuestion(st, id) ==
  LET question == MapGet(st.questions, id)
      subject == IF question # <<>>
                 THEN MapGet(st.subjects, question[1].subjectId)
                 ELSE <<>>
      st1 == IF subject # <<>>
             THEN [st EXCEPT !.subjects =
                     MapSet(@, question[1].subjectId,
                            Spread(subject[1],
                                   [questionsCount |->
                                      MathMax(0, subject[1].questionsCount - 1)]))]
             ELSE st
  IN [st1 EXCEPT !.questions = MapDelete(@, id)]

\* ------------------------------------------------------ queries (both)
\* if (subjectId) return rows.filter(r => r.subjectId === subjectId)
GetNotes(st, filter) ==
  IF filter # <<>>
  THEN {n \in {st.notes[k] : k \in DOMAIN st.notes} : n.subjectId = filter[1]}
  ELSE {st.notes[k] : k \in DOMAIN st.notes}

GetSummaries(st, filter) ==
  IF filter # <<>>
  THEN {n \in {st.summaries[k] : k \in DOMAIN st.summaries} :
          n.subjectId = filter[1]}
  ELSE {st.summaries[k] : k \in DOMAIN st.summaries}

GetFlashcards(st, filter) ==
  IF filter # <<>>
  THEN {n \in {st.flashcards[k] : k \in DOMAIN st.flashcards} :
          n.subjectId = filter[1]}
  ELSE {st.flashcards[k] : k \in DOMAIN st.flashcards}

GetQuestions(st, filter) ==
  IF filter # <<>>
  THEN {n \in {st.questions[k] : k \in DOMAIN st.questions} :
          n.subjectId = filter[1]}
  ELSE {st.questions[k] : k \in DOMAIN st.questions}

\* ------------------------------------- DatabaseStorage: one SQL statement
\* insert(table).values(row).returning()
DbInsert(st, table, row) == [st EXCEPT ![table] = MapSet(@, row.id, row)]

\* const [subject] = select().from(subjects).where(eq(subjects.id, id))
DbSelectSubject(st, id) == MapGet(st.subjects, id)

\* A variant whose write is lost
DbSetSubjectWritesNothing(st, id, fields) == st

\* update(subjects).set(fields).where(eq(subjects.id, id))
DbSetSubject(st, id, fields) ==
  IF id \in DOMAIN st.subjects
  THEN [st EXCEPT !.subjects = MapSet(@, id, Spread(st.subjects[id], fields))]
  ELSE st

\* delete(table).where(eq(table.subjectId, id))
DbDeleteOfSubject(st, table, id) ==
  [st EXCEPT ![table] =
     [k \in {x \in DOMAIN @ : @[x].subjectId # id} |-> @[k]]]

\* delete(table).where(eq(table.id, id)).returning()
DbDeleteById(st, table, id) == [st EXCEPT ![table] = MapDelete(@, id)]

\* ---------------------------------------- DatabaseStorage: whole methods
DbCreateSubject(st, data, id) ==
  DbInsert(st, "subjects",
           [id |-> id, name |-> data.name, notesCount |-> 0,
            flashcardsCount |-> 0, questionsCount |-> 0])

DbUpdateSubject(st, id, data) == DbSetSubject(st, id, data)

DbDeleteSubject(st, id) ==
  LET s1 == DbDeleteOfSubject(st, "notes", id)
      s2 == DbDeleteOfSubject(s1, "summaries", id)
      s3 == DbDeleteOfSubject(s2, "flashcards", id)
      s4 == DbDeleteOfSubject(s3, "questions", id)
  IN DbDeleteById(s4, "subjects", id)

DbCreateNote(st, data, id) ==
  LET st1 == DbInsert(st, "notes", [id |-> id, subjectId |-> data.subjectId])
      subject == DbSelectSubject(st1, data.subjectId)
  IN IF subject # <<>>
     THEN DbSetSubject(st1, data.subjectId,
                       [notesCount |-> subject[1].notesCount + 1])
     ELSE st1

DbDeleteNote(st, id) ==
  LET note == MapGet(st.notes, id)
      subject == IF note # <<>> THEN DbSelectSubject(st, note[1].subjectId)
                 ELSE <<>>
      st1 == IF subject # <<>>
             THEN DbSetSubject(st, note[1].subjectId,
                               [notesCount |->
                                  MathMax(0, subject[1].notesCount - 1)])
             ELSE st
  IN DbDeleteById(st1, "notes", id)

DbCreateSummary(st, data, id, clock) ==
  DbInsert(st, "summaries",
           [id |-> id, noteId |-> data.noteId, subjectId |-> data.subjectId,
            fullSummary |-> data.fullSummary, createdAt |-> clock])

DbDeleteSummary(st, id) == DbDeleteById(st, "summaries", id)

FlashcardRow(data, id) ==
  [id |-> id, subjectId |-> data.subjectId, difficulty |-> data.difficulty,
   timesReviewed |-> 0]

DbCreateFlashcard(st, data, id) ==
  LET st1 == DbInsert(st, "flashcards", FlashcardRow(data, id))
      subject == DbSelectSubject(st1, data.subjectId)
  IN IF subject # <<>>
     THEN DbSetSubject(st1, data.subjectId,
                       [flashcardsCount |-> subject[1].flashcardsCount + 1])
     ELSE st1

\* insert(table).values(rows): every row in one statement
RECURSIVE DbInsertAll(_, _, _)
DbInsertAll(st, table, rows) ==
  IF rows = <<>> THEN st
  ELSE DbInsertAll(DbInsert(st, table, Head(rows)), table, Tail(rows))

\* [...new Set(items.map(f => f.subjectId))]: first occurrences, in order
RECURSIVE UniqueSubjectIds(_)
UniqueSubjectIds(data) ==
  IF data = <<>> THEN <<>>
  ELSE LET init == UniqueSubjectIds(SubSeq(data, 1, Len(data) - 1))
           last == data[Len(data)].subjectId
       IN IF \E i \in 1 .. Len(init) : init[i] = last THEN init
          ELSE Append(init, last)

\* items.filter(f => f.subjectId === subId).length
CountOf(data, subId) ==
  Cardinality({i \in 1 .. Len(data) : data[i].subjectId = subId})

\* the per-subject update adding one instead of the batch's count
DbCountStepAddsOne(st, data, subId, field) ==
  LET subject == MapGet(st.subjects, subId)
  IN IF subject # <<>>
     THEN [st EXCEPT !.subjects =
             MapSet(@, subId,
                    Spread(subject[1],
                           [f \in {field} |-> subject[1][field] + 1]))]
     ELSE st

\* one pass of: for (const subId of subjectIds) { select; if (subject) update }
DbCountStep(st, data, subId, field) ==
  LET subject == DbSelectSubject(st, subId)
  IN IF subject # <<>>
     THEN DbSetSubject(st, subId,
                       [f \in {field} |->
                          subject[1][field] + CountOf(data, subId)])
     ELSE st

RECURSIVE DbCountLoop(_, _, _, _)
DbCountLoop(st, data, subjectIds, field) ==
  IF subjectIds = <<>> THEN st
  ELSE DbCountLoop(DbCountStep(st, data, Head(subjectIds), field),
                   data, Tail(subjectIds), field)

DbCreateFlashcards(st, data, ids) ==
  LET rows == [i \in 1 .. Len(data) |-> FlashcardRow(data[i], ids[i])]
      st1 == DbInsertAll(st, "flashcards", rows)
  IN DbCountLoop(st1, data, UniqueSubjectIds(data), "flashcardsCount")

\* set({ ...data, lastReviewed: new Date(),
\*       timesReviewed: (data.timesReviewed || 0) + 1 })
DbUpdateFlashcard(st, id, data, clock) ==
  IF id \notin DOMAIN st.flashcards THEN st
  ELSE [st EXCEPT !.flashcards =
          MapSet(@, id,
                 Spread(st.flashcards[id],
                        Spread(data,
                               [lastReviewed |-> clock,
                                timesReviewed |->
                                  (IF "timesReviewed" \in DOMAIN data
                                   THEN data.timesReviewed ELSE 0) + 1])))]

DbDeleteFlashcard(st, id) ==
  LET flashcard == MapGet(st.flashcards, id)
      subject == IF flashcard # <<>>
                 THEN DbSelectSubject(st, flashcard[1].subjectId)
                 ELSE <<>>
      st1 == IF subject # <<>>
             THEN DbSetSubject(st, flashcard[1].subjectId,
                               [flashcardsCount |->
                                  MathMax(0, subject[1].flashcardsCount - 1)])
             ELSE st
  IN DbDeleteById(st1, "flashcards", id)

QuestionRow(data, id) == [id |-> id, subjectId |-> data.subjectId]

DbCreateQuestion(st, data, id) ==
  LET st1 == DbInsert(st, "questions", QuestionRow(data, id))
      subject == DbSelectSubject(st1, data.subjectId)
  IN IF subject # <<>>
     THEN DbSetSubject(st1, data.subjectId,
                       [questionsCount |-> subject[1].questionsCount + 1])
     ELSE st1

DbCreateQuestions(st, data, ids) ==
  LET rows == [i \in 1 .. Len(data) |-> QuestionRow(data[i], ids[i])]
      st1 == DbInsertAll(st, "questions", rows)
  IN DbCountLoop(st1, data, UniqueSubjectIds(data), "questionsCount")

DbDeleteQuestion(st, id) ==
  LET question == MapGet(st.questions, id)
      subject == IF question # <<>>
                 THEN DbSelectSubject(st, question[1].subjectId)
                 ELSE <<>>
      st1 == IF subject # <<>>
             THEN DbSetSubject(st, question[1].subjectId,
                               [questionsCount |->
                                  MathMax(0, subject[1].questionsCount - 1)])
             ELSE st
  IN DbDeleteById(st1, "questions", id)

\* --------------------------------------------------------- JSON values
\* A JSON value carries its type; an object is a set of <<name, value>> pairs.
\* Undefined is what reading a property that is not there gives.
Undefined == [t |-> "undefined"]

Null == [t |-> "null"]

Str(x) == [t |-> "string", s |-> x]

Arr(x) == [t |-> "array", a |-> x]

Obj(pairs) == [t |-> "object", o |-> pairs]

\* A string whose text is a date, the date kept as its digits
DateStr(d) == [t |-> "string", d |-> d]

\* The text of a string
TextOf(v) == IF "d" \in DOMAIN v THEN v.d ELSE v.s

\* The values JavaScript takes for true in a || b
Truthy(v) == v.t \notin {"undefined", "null"} /\ v # Str("")

\* a || b
OrElse(a, b) == IF Truthy(a) THEN a ELSE b

\* Reading a property of null or undefined throws a TypeError
HasProperties(v) == v.t \notin {"undefined", "null"}

\* value.name
Property(v, name) ==
  IF v.t = "object" /\ \E p \in v.o : p[1] = name
  THEN (CHOOSE p \in v.o : p[1] = name)[2]
  ELSE Undefined

\* The object holding the fields of g that are not undefined
ObjOf(g) == Obj({<<f, g[f]>> : f \in {x \in DOMAIN g : g[x] # Undefined}})

\* ---------------------------------------------------------- AI gateway
\* What groq.chat.completions.create gives: it throws, or it returns a
\* message whose content is empty, is not JSON, or is the text of a value
ProviderThrows == [kind |-> "throws"]

NoContent == [kind |-> "empty"]

NotJson == [kind |-> "garbage"]

Json(v) == [kind |-> "json", value |-> v]

Thrown == [ok |-> FALSE]

Returned(v) == [ok |-> TRUE, value |-> v]

\* JSON.parse(response.choices[0].message.content || "{}")
JSONParse(reply) ==
  CASE reply.kind = "empty" -> Returned(Obj({}))
    [] reply.kind = "garbage" -> Thrown
    [] reply.kind = "json" -> Returned(reply.value)

\* A variant that passes fullSummary through as the reply gives it
SummaryFieldsNoFallback(result) ==
  [keyPoints    |-> OrElse(Property(result, "keyPoints"), Arr(<<>>)),
   definitions  |-> OrElse(Property(result, "definitions"), Arr(<<>>)),
   formulas     |-> OrElse(Property(result, "formulas"), Arr(<<>>)),
   mainConcepts |-> OrElse(Property(result, "mainConcepts"), Arr(<<>>)),
   fullSummary  |-> Property(result, "fullSummary")]

\* return { keyPoints: result.keyPoints || [], ... }
SummaryFields(result) ==
  [keyPoints    |-> OrElse(Property(result, "keyPoints"), Arr(<<>>)),
   definitions  |-> OrElse(Property(result, "definitions"), Arr(<<>>)),
   formulas     |-> OrElse(Property(result, "formulas"), Arr(<<>>)),
   mainConcepts |-> OrElse(Property(result, "mainConcepts"), Arr(<<>>)),
   fullSummary  |-> OrElse(Property(result, "fullSummary"),
                           Str("Summary not available."))]

\* Every exception inside the try is caught and thrown again as an Error
SummarizeContent(reply) ==
  IF reply = ProviderThrows THEN Thrown
  ELSE LET parsed == JSONParse(reply)
       IN IF ~parsed.ok \/ ~HasProperties(parsed.value) THEN Thrown
          ELSE Returned(SummaryFields(parsed.value))

\* return response.choices[0].message.content || "I couldn't ..."
ChatWithAI(reply) ==
  IF reply = ProviderThrows THEN Thrown
  ELSE IF reply = NoContent
  THEN Returned(Str("I couldn't generate a response. Please try again."))
  ELSE Returned(Str("text"))

\* const finalCount = Math.min(count, 10): the number the prompt asks for
FlashcardsFinalCount(count) == IF count < 10 THEN count ELSE 10

\* A variant that returns result.flashcards as it is
GenerateFlashcardsNoDefault(count, reply) ==
  IF reply = ProviderThrows THEN Thrown
  ELSE LET parsed == JSONParse(reply)
       IN IF ~parsed.ok \/ ~HasProperties(parsed.value) THEN Thrown
          ELSE Returned(Property(parsed.value, "flashcards"))

\* return result.flashcards || []
GenerateFlashcards(count, reply) ==
  IF reply = ProviderThrows THEN Thrown
  ELSE LET parsed == JSONParse(reply)
       IN IF ~parsed.ok \/ ~HasProperties(parsed.value) THEN Thrown
          ELSE Returned(OrElse(Property(parsed.value, "flashcards"),
                               Arr(<<>>)))

\* const finalCount = Math.min(count, 8): the number the prompt asks for
QuestionsFinalCount(count) == IF count < 8 THEN count ELSE 8

\* return result.questions || []
GenerateQuestions(count, reply) ==
  IF reply = ProviderThrows THEN Thrown
  ELSE LET parsed == JSONParse(reply)
       IN IF ~parsed.ok \/ ~HasProperties(parsed.value) THEN Thrown
          ELSE Returned(OrElse(Property(parsed.value, "questions"),
                               Arr(<<>>)))

\* ------------------------------------------------- strings that are dates
\* A string is a sequence of digits.  JavaScript's >= on strings and
\* localeCompare on digit strings both order them lexicographically.
RECURSIVE StrLess(_, _)
StrLess(a, b) ==
  IF b = <<>> THEN FALSE
  ELSE IF a = <<>> THEN TRUE
  ELSE IF Head(a) # Head(b) THEN Head(a) < Head(b)
  ELSE StrLess(Tail(a), Tail(b))

\* new Date().toISOString().split('T')[0]: the clock as a zero-padded date
ISODate(t) == <<t \div 10, t % 10>>

\* Array.prototype.slice(0, n)
Slice(s, n) == SubSeq(s, 1, IF Len(s) < n THEN Len(s) ELSE n)

\* ------------------------------------------------- generateStudyPlan
\* (t) => ({ topic: t.topic || "Study session", ... })
PlanTask(t, todayStr) ==
  [topic    |-> OrElse(Property(t, "topic"), Str("Study session")),
   subject  |-> OrElse(Property(t, "subject"), Str("General")),
   duration |-> OrElse(Property(t, "duration"), Str("1 hour")),
   priority |-> OrElse(Property(t, "priority"), Str("medium")),
   date     |-> OrElse(Property(t, "date"), DateStr(todayStr)),
   timeSlot |-> Property(t, "timeSlot")]

\* (result.tasks || []).map(...) throws when result.tasks is no array or
\* holds a null; every exception is thrown again as an Error
GenerateStudyPlan(reply, clock) ==
  IF reply = ProviderThrows THEN Thrown
  ELSE LET parsed == JSONParse(reply)
       IN IF ~parsed.ok \/ ~HasProperties(parsed.value) THEN Thrown
          ELSE LET result == parsed.value
                   tasks == OrElse(Property(result, "tasks"), Arr(<<>>))
               IN IF tasks.t # "array"
                       \/ \E i \in 1 .. Len(tasks.a) :
                            ~HasProperties(tasks.a[i])
                  THEN Thrown
                  ELSE Returned(
                    [title |-> OrElse(Property(result, "title"),
                                      Str("Study Plan")),
                     description |->
                       OrElse(Property(result, "description"),
                              Str("Your personalized study plan")),
                     startDate |-> OrElse(Property(result, "startDate"),
                                          DateStr(ISODate(clock))),
                     endDate |-> OrElse(Property(result, "endDate"),
                                        DateStr(ISODate(clock + 7))),
                     tasks |-> [i \in 1 .. Len(tasks.a) |->
                                  PlanTask(tasks.a[i], ISODate(clock))]])

\* ---------------------------------------------------------- study plans
\* A task keeps the fields the storage reads or rewrites: id, topic, date and
\* completed.  studyPlans is a sequence in insertion order.
PlanIndex(st, planId) ==
  {p \in 1 .. Len(st.studyPlans) : st.studyPlans[p].id = planId}

\* studyPlans.get(id) / select ... where id = planId
GetStudyPlan(st, planId) ==
  IF PlanIndex(st, planId) = {} THEN <<>>
  ELSE <<st.studyPlans[CHOOSE p \in PlanIndex(st, planId) : TRUE]>>

MemCreateStudyPlan(st, data, id, taskIds, clock) ==
  [st EXCEPT !.studyPlans =
     Append(@, [id        |-> id,
                tasks     |-> [i \in 1 .. Len(data.tasks) |->
                                 Spread(data.tasks[i], [id |-> taskIds[i]])],
                createdAt |-> clock])]

\* t.id || randomUUID(): the empty id the route passes is 0 here
DbCreateStudyPlan(st, data, id, taskIds, clock) ==
  [st EXCEPT !.studyPlans =
     Append(@, [id        |-> id,
                tasks     |-> [i \in 1 .. Len(data.tasks) |->
                                 Spread(data.tasks[i],
                                        [id |-> IF data.tasks[i].id # 0
                                                THEN data.tasks[i].id
                                                ELSE taskIds[i]])],
                createdAt |-> clock])]

\* plan.tasks.map((t) => t.id === taskId ? { ...t, ...data } : t)
MapTasks(tasks, taskId, data) ==
  [i \in 1 .. Len(tasks) |->
     IF tasks[i].id = taskId THEN Spread(tasks[i], data) ELSE tasks[i]]

MemUpdateStudyPlanTask(st, planId, taskId, data) ==
  IF PlanIndex(st, planId) = {} THEN st
  ELSE LET p == CHOOSE q \in PlanIndex(st, planId) : TRUE
       IN [st EXCEPT !.studyPlans[p].tasks = MapTasks(@, taskId, data)]

DbUpdateStudyPlanTask(st, planId, taskId, data) ==
  LET plan == GetStudyPlan(st, planId)
  IN IF plan = <<>> THEN st
     ELSE LET updatedTasks == MapTasks(plan[1].tasks, taskId, data)
              rows == st.studyPlans
          IN [st EXCEPT !.studyPlans =
                [p \in 1 .. Len(rows) |->
                   IF rows[p].id = planId
                   THEN [rows[p] EXCEPT !.tasks = updatedTasks]
                   ELSE rows[p]]]

\* A stable sort by createdAt, newest first
RECURSIVE SortPlansNewestFirst(_)
SortPlansNewestFirst(plans) ==
  IF plans = <<>> THEN <<>>
  ELSE LET rest == SortPlansNewestFirst(SubSeq(plans, 1, Len(plans) - 1))
           x    == plans[Len(plans)]
           k    == Cardinality({i \in 1 .. Len(rest) :
                                  rest[i].createdAt >= x.createdAt})
       IN SubSeq(rest, 1, k) \o <<x>> \o SubSeq(rest, k + 1, Len(rest))

MemGetStudyPlans(st) == SortPlansNewestFirst(st.studyPlans)

\* select().from(studyPlans): the rows in an order the database chooses
DbSelectStudyPlans(st) ==
  {[i \in 1 .. Len(st.studyPlans) |-> st.studyPlans[f[i]]] :
     f \in Permutations(1 .. Len(st.studyPlans))}

\* ------------------------------------------------------------ dashboard
\* A variant that leaves out the tasks dated today
IsUpcomingAfterToday(task, today) ==
  ~task.completed /\ StrLess(today, task.date)

\* !task.completed && task.date >= today
IsUpcoming(task, today) == ~task.completed /\ ~StrLess(task.date, today)

UpcomingOf(s, today) ==
  LET Test(t) == IsUpcoming(t, today) IN SelectSeq(s, Test)

\* for (const plan of plans) for (const task of plan.tasks) if (...) push
RECURSIVE CollectUpcoming(_, _)
CollectUpcoming(plans, today) ==
  IF plans = <<>> THEN <<>>
  ELSE UpcomingOf(Head(plans).tasks, today)
         \o CollectUpcoming(Tail(plans), today)

\* A variant that keeps the order in which the tasks were collected
SortByDateKeepsOrder(tasks) == tasks

\* upcomingTasks.sort((a, b) => a.date.localeCompare(b.date)), a stable sort
RECURSIVE SortByDate(_)
SortByDate(tasks) ==
  IF tasks = <<>> THEN <<>>
  ELSE LET rest == SortByDate(SubSeq(tasks, 1, Len(tasks) - 1))
           x    == tasks[Len(tasks)]
           k    == Cardinality({i \in 1 .. Len(rest) :
                                  ~StrLess(x.date, rest[i].date)})
       IN SubSeq(rest, 1, k) \o <<x>> \o SubSeq(rest, k + 1, Len(rest))

UpcomingTasks(plans, today) ==
  Slice(SortByDate(CollectUpcoming(plans, today)), UpcomingLimit)

\* Array.sort by createdAt, newest first, of the summaries in the order the
\* Map holds them (the order of insertion, which is the order of the ids)
RECURSIVE SortSummariesNewestFirst(_, _)
SortSummariesNewestFirst(m, ids) ==
  IF ids = {} THEN <<>>
  ELSE LET last == CHOOSE k \in ids : \A j \in ids : j <= k
           rest == SortSummariesNewestFirst(m, ids \ {last})
           x    == m[last]
           n    == Cardinality({i \in 1 .. Len(rest) :
                                  rest[i].createdAt >= x.createdAt})
       IN SubSeq(rest, 1, n) \o <<x>> \o SubSeq(rest, n + 1, Len(rest))

\* A variant that keeps only the summaries of the newest summary's subject
MemGetSummariesOfOneSubject(st) ==
  LET all == SortSummariesNewestFirst(st.summaries, DOMAIN st.summaries)
      Same(x) == x.subjectId = all[1].subjectId
  IN IF all = <<>> THEN <<>> ELSE SelectSeq(all, Same)

\* getSummaries() with no subject id
MemGetSummaries(st) ==
  SortSummariesNewestFirst(st.summaries, DOMAIN st.summaries)

\* select().from(summaries).orderBy(desc(summaries.createdAt)).limit(n): rows
\* of equal createdAt come in an order the database chooses
RECURSIVE DbSelectSummariesNewestFirst(_, _)
DbSelectSummariesNewestFirst(rows, n) ==
  IF n = 0 \/ rows = {} THEN {<<>>}
  ELSE LET newest == {r \in rows : \A q \in rows : q.createdAt <= r.createdAt}
       IN UNION {{<<r>> \o t :
                    t \in DbSelectSummariesNewestFirst(rows \ {r}, n - 1)} :
                 r \in newest}

DashboardStats(st, plans, recent, today) ==
  [totalSubjects   |-> Cardinality(DOMAIN st.subjects),
   totalNotes      |-> Cardinality(DOMAIN st.notes),
   totalFlashcards |-> Cardinality(DOMAIN st.flashcards),
   totalQuestions  |-> Cardinality(DOMAIN st.questions),
   studyStreak     |-> 0,
   recentSummaries |-> recent,
   upcomingTasks   |-> UpcomingTasks(plans, today)]

MemGetDashboardStats(st, today) ==
  {DashboardStats(st, MemGetStudyPlans(st),
                  Slice(MemGetSummaries(st), RecentLimit), today)}

DbGetDashboardStats(st, today) ==
  {DashboardStats(st, plans, recent, today) :
     plans \in DbSelectStudyPlans(st),
     recent \in DbSelectSummariesNewestFirst(
                  {st.summaries[k] : k \in DOMAIN st.summaries}, RecentLimit)}

\* ---------------------------------------------------------------- actions
\* Identifiers a caller can name: those generated so far, and 0.
Known(kind) == 0 .. (nextId[kind] - 1)

\* Notes, summaries, flashcards and questions created so far
Created ==
  (nextId.note - 1) + (nextId.summary - 1) + (nextId.flashcard - 1)
    + (nextId.question - 1)

Bump(kind, n) == nextId' = [nextId EXCEPT ![kind] = @ + n]

\* storage = process.env.DATABASE_URL ? new DatabaseStorage() : new MemStorage()
Storage(mem, db) == IF backend = "mem" THEN mem ELSE db

\* Request bodies PATCH /api/subjects/:id hands to updateSubject unvalidated
SubjectPatches ==
  {[notesCount |-> 0, flashcardsCount |-> 0, questionsCount |-> 0]}

\* Request bodies PATCH /api/flashcards/:id hands to updateFlashcard
FlashcardPatches ==
  {[difficulty |-> "easy"]} \cup {[subjectId |-> s] : s \in Known("subject")}

\* Batches of at most MaxBatch records, each naming a known subject or none
Batches ==
  UNION {[1 .. n -> [subjectId : Known("subject"), difficulty : {"medium"}]] :
           n \in 1 .. MaxBatch}

FreshIds(kind, n) == [i \in 1 .. n |-> nextId[kind] + i - 1]

CreateSubject ==
  /\ nextId.subject <= MaxSubjects
  /\ SetStore(Storage(MemCreateSubject(Store, [name |-> "n"], nextId.subject),
                      DbCreateSubject(Store, [name |-> "n"], nextId.subject)))
  /\ Bump("subject", 1)
  /\ ret' = [op |-> "createSubject", id |-> nextId.subject, result |-> TRUE]
  /\ UNCHANGED <<aux, patched, backend, now, noteLog>>

UpdateSubject ==
  \E id \in Known("subject"), data \in SubjectPatches :
    /\ SetStore(Storage(MemUpdateSubject(Store, id, data),
                        DbUpdateSubject(Store, id, data)))
    /\ ret' = [op |-> "updateSubject", id |-> id, result |-> (id \in DOMAIN subjects)]
    /\ UNCHANGED <<aux, patched, backend, now, nextId, noteLog>>

DeleteSubject ==
  \E id \in Known("subject") :
    /\ SetStore(Storage(MemDeleteSubject(Store, id),
                        DbDeleteSubject(Store, id)))
    /\ ret' = [op |-> "deleteSubject", id |-> id, result |-> (id \in DOMAIN subjects)]
    /\ UNCHANGED <<aux, patched, backend, now, nextId, noteLog>>

CreateNote ==
  \E s \in Known("subject") :
    /\ Created < MaxRecords
    /\ SetStore(Storage(MemCreateNote(Store, [subjectId |-> s], nextId.note),
                        DbCreateNote(Store, [subjectId |-> s], nextId.note)))
    /\ Bump("note", 1)
    /\ ret' = [op |-> "createNote", id |-> nextId.note, result |-> TRUE]
    /\ noteLog' = [noteLog EXCEPT ![s].created = @ + 1]
    /\ UNCHANGED <<aux, patched, backend, now>>

DeleteNote ==
  \E id \in Known("note") :
    /\ SetStore(Storage(MemDeleteNote(Store, id), DbDeleteNote(Store, id)))
    /\ ret' = [op |-> "deleteNote", id |-> id, result |-> (id \in DOMAIN notes)]
    /\ noteLog' = IF id \in DOMAIN notes
                  THEN [noteLog EXCEPT ![notes[id].subjectId].deleted = @ + 1]
                  ELSE noteLog
    /\ UNCHANGED <<aux, patched, backend, now, nextId>>

CreateSummary ==
  \E s \in Known("subject"), n \in Known("note") :
    /\ Created < MaxRecords
    /\ LET data == [noteId |-> n, subjectId |-> s, fullSummary |-> Str("s")]
       IN SetStore(Storage(MemCreateSummary(Store, data, nextId.summary, now),
                           DbCreateSummary(Store, data, nextId.summary, now)))
    /\ Bump("summary", 1)
    /\ ret' = [op |-> "createSummary", id |-> nextId.summary, result |-> TRUE]
    /\ UNCHANGED <<aux, patched, backend, now, noteLog>>

DeleteSummary ==
  \E id \in Known("summary") :
    /\ SetStore(Storage(MemDeleteSummary(Store, id),
                        DbDeleteSummary(Store, id)))
    /\ ret' = [op |-> "deleteSummary", id |-> id, result |-> (id \in DOMAIN summaries)]
    /\ UNCHANGED <<aux, patched, backend, now, nextId, noteLog>>

CreateFlashcard ==
  \E s \in Known("subject") :
    /\ Created < MaxRecords
    /\ LET data == [subjectId |-> s, difficulty |-> "medium"]
       IN SetStore(Storage(MemCreateFlashcard(Store, data, nextId.flashcard),
                           DbCreateFlashcard(Store, data, nextId.flashcard)))
    /\ Bump("flashcard", 1)
    /\ ret' = [op |-> "createFlashcard", id |-> nextId.flashcard, result |-> TRUE]
    /\ UNCHANGED <<aux, patched, backend, now, noteLog>>

CreateFlashcards ==
  \E data \in Batches :
    /\ Created + Len(data) <= MaxRecords
    /\ LET ids == FreshIds("flashcard", Len(data))
       IN SetStore(Storage(MemCreateFlashcards(Store, data, ids),
                           DbCreateFlashcards(Store, data, ids)))
    /\ Bump("flashcard", Len(data))
    /\ ret' = [op |-> "createFlashcards", id |-> nextId.flashcard,
               result |-> TRUE, data |-> data]
    /\ UNCHANGED <<aux, patched, backend, now, noteLog>>

UpdateFlashcard ==
  \E id \in Known("flashcard"), data \in FlashcardPatches :
    /\ id \in DOMAIN flashcards => flashcards[id].timesReviewed < MaxReviews
    /\ SetStore(Storage(MemUpdateFlashcard(Store, id, data, now),
                        DbUpdateFlashcard(Store, id, data, now)))
    /\ ret' = [op |-> "updateFlashcard", id |-> id, result |-> (id \in DOMAIN flashcards)]
    /\ UNCHANGED <<aux, patched, backend, now, nextId, noteLog>>

DeleteFlashcard ==
  \E id \in Known("flashcard") :
    /\ SetStore(Storage(MemDeleteFlashcard(Store, id),
                        DbDeleteFlashcard(Store, id)))
    /\ ret' = [op |-> "deleteFlashcard", id |-> id, result |-> (id \in DOMAIN flashcards)]
    /\ UNCHANGED <<aux, patched, backend, now, nextId, noteLog>>

CreateQuestion ==
  \E s \in Known("subject") :
    /\ Created < MaxRecords
    /\ SetStore(Storage(MemCreateQuestion(Store, [subjectId |-> s],
                                          nextId.question),
                        DbCreateQuestion(Store, [subjectId |-> s],
                                         nextId.question)))
    /\ Bump("question", 1)
    /\ ret' = [op |-> "createQuestion", id |-> nextId.question, result |-> TRUE]
    /\ UNCHANGED <<aux, patched, backend, now, noteLog>>

CreateQuestions ==
  \E data \in Batches :
    /\ Created + Len(data) <= MaxRecords
    /\ LET ids == FreshIds("question", Len(data))
       IN SetStore(Storage(MemCreateQuestions(Store, data, ids),
                           DbCreateQuestions(Store, data, ids)))
    /\ Bump("question", Len(data))
    /\ ret' = [op |-> "createQuestions", id |-> nextId.question,
               result |-> TRUE, data |-> data]
    /\ UNCHANGED <<aux, patched, backend, now, noteLog>>

DeleteQuestion ==
  \E id \in Known("question") :
    /\ SetStore(Storage(MemDeleteQuestion(Store, id),
                        DbDeleteQuestion(Store, id)))
    /\ ret' = [op |-> "deleteQuestion", id |-> id, result |-> (id \in DOMAIN questions)]
    /\ UNCHANGED <<aux, patched, backend, now, nextId, noteLog>>

\* Dates a generated plan or a request body can carry: two well-formed ones
\* and one that is not zero-padded
Dates == {<<0, 0>>, <<0, 1>>, <<1>>}

\* Plans the generator returns, as the route hands them to createStudyPlan:
\* every task with the empty id and completed false
NewTask(date) == [id |-> 0, topic |-> "t", date |-> date, completed |-> FALSE]

ShortPlans ==
  {[tasks |-> <<>>], [tasks |-> <<NewTask(<<0, 1>>)>>],
   [tasks |-> <<NewTask(<<0, 0>>), NewTask(<<0, 1>>)>>]}

LongPlans ==
  {[tasks |-> <<NewTask(<<1>>), NewTask(<<0, 0>>), NewTask(<<0, 1>>)>>],
   [tasks |-> <<NewTask(<<0, 1>>), NewTask(<<0, 1>>)>>]}

\* Request bodies PATCH /api/study-plans/:planId/tasks/:taskId hands to
\* updateStudyPlanTask unvalidated
TogglePatches == {[completed |-> TRUE]}

TaskPatches ==
  TogglePatches \cup {[completed |-> FALSE], [date |-> <<1>>], [id |-> 1]}

\* The plan and task a request names: a task of a stored plan, a stored plan
\* with a task id it does not hold, or a plan that is not stored
TaskPaths ==
  UNION {{<<studyPlans[p].id, studyPlans[p].tasks[i].id>> :
            i \in 1 .. Len(studyPlans[p].tasks)} : p \in 1 .. Len(studyPlans)}
  \cup {<<planId, 0>> : planId \in Known("plan")}

CreateStudyPlan(plans) ==
  \E data \in plans :
    LET taskIds == FreshIds("task", Len(data.tasks))
    IN /\ nextId.plan <= MaxPlans
       /\ SetStore(Storage(
            MemCreateStudyPlan(Store, data, nextId.plan, taskIds, now),
            DbCreateStudyPlan(Store, data, nextId.plan, taskIds, now)))
       /\ nextId' = [nextId EXCEPT !.plan = @ + 1,
                                   !.task = @ + Len(data.tasks)]
       /\ ret' = [op |-> "createStudyPlan", id |-> nextId.plan,
                  result |-> TRUE]
       /\ UNCHANGED <<aux, patched, backend, now, noteLog>>

UpdateStudyPlanTask(patches) ==
  \E path \in TaskPaths, data \in patches :
   LET planId == path[1]
       taskId == path[2]
   IN
    /\ SetStore(Storage(MemUpdateStudyPlanTask(Store, planId, taskId, data),
                        DbUpdateStudyPlanTask(Store, planId, taskId, data)))
    /\ ret' = [op |-> "updateStudyPlanTask", id |-> planId,
               taskId |-> taskId, data |-> data,
               result |-> GetStudyPlan(Store, planId) # <<>>]
    /\ UNCHANGED <<aux, backend, now, nextId, noteLog>>

PatchTask ==
  /\ patched < MaxPatches
  /\ UpdateStudyPlanTask(TaskPatches)
  /\ patched' = patched + 1

ToggleTask == UpdateStudyPlanTask(TogglePatches) /\ UNCHANGED patched

GetDashboardStats ==
  LET today == ISODate(now)
  IN \E stats \in Storage(MemGetDashboardStats(Store, today),
                          DbGetDashboardStats(Store, today)) :
       /\ ret' = [op |-> "getDashboardStats", id |-> 0, today |-> today,
                  result |-> stats]
       /\ UNCHANGED <<aux, patched, backend, subjects, notes, summaries, flashcards,
                      questions, studyPlans, nextId, now, noteLog>>

\* The clock advances between requests
Tick ==
  /\ now < MaxClock
  /\ now' = now + 1
  /\ UNCHANGED <<aux, patched, backend, subjects, notes, summaries, flashcards,
                 questions, studyPlans, nextId, ret, noteLog>>

\* ------------------------- DatabaseStorage calls, statement by statement
\* Every await of a DatabaseStorage method is a point where other requests
\* run.  pending[r] holds where the call of request r stands.
Requests == 1 .. MaxRequests

Idle == [pc |-> "idle"]

AllIdle == \A r \in Requests : pending[r] = Idle

\* The three creations that insert a record and then count it on its subject
Kinds == {"note", "flashcard", "question"}

TableOf(kind) ==
  CASE kind = "note" -> "notes"
    [] kind = "flashcard" -> "flashcards"
    [] kind = "question" -> "questions"

CounterOf(kind) ==
  CASE kind = "note" -> "notesCount"
    [] kind = "flashcard" -> "flashcardsCount"
    [] kind = "question" -> "questionsCount"

CreateOf(kind) ==
  CASE kind = "note" -> "createNote"
    [] kind = "flashcard" -> "createFlashcard"
    [] kind = "question" -> "createQuestion"

RowOf(kind, s, id) ==
  CASE kind = "note" -> [id |-> id, subjectId |-> s]
    [] kind = "flashcard" ->
         FlashcardRow([subjectId |-> s, difficulty |-> "medium"], id)
    [] kind = "question" -> QuestionRow([subjectId |-> s], id)

\* createNote, createFlashcard, createQuestion:
\* insert(table).values(data).returning()
RecordInsert ==
  \E r \in Requests, kind \in Kinds, s \in Known("subject") :
    /\ pending[r] = Idle
    /\ Created < MaxRecords
    /\ SetStore(DbInsert(Store, TableOf(kind), RowOf(kind, s, nextId[kind])))
    /\ Bump(kind, 1)
    /\ noteLog' = IF kind = "note"
                  THEN [noteLog EXCEPT ![s].created = @ + 1] ELSE noteLog
    /\ pending' = [pending EXCEPT ![r] =
                     [pc |-> "inserted", op |-> CreateOf(kind),
                      kind |-> kind, id |-> nextId[kind], subjectId |-> s]]
    /\ UNCHANGED <<backend, now, ret, patched, raced, page>>

\* const [subject] = select().from(subjects).where(eq(subjects.id, subjectId));
\* with no subject the call returns the record
SubjectSelect ==
  \E r \in Requests :
    /\ pending[r].pc = "inserted"
    /\ LET subject == DbSelectSubject(Store, pending[r].subjectId)
       IN IF subject = <<>>
          THEN /\ pending' = [pending EXCEPT ![r] = Idle]
               /\ ret' = [op |-> pending[r].op, id |-> pending[r].id,
                          result |-> TRUE]
               /\ UNCHANGED raced
          ELSE /\ pending' = [pending EXCEPT ![r] =
                                [pc |-> "selected", op |-> @.op,
                                 kind |-> @.kind, id |-> @.id,
                                 subjectId |-> @.subjectId,
                                 subject |-> subject[1]]]
               /\ raced' =
                    IF \E q \in Requests \ {r} :
                         /\ pending[q].pc = "selected"
                         /\ pending[q].op = pending[r].op
                         /\ pending[q].subjectId = pending[r].subjectId
                    THEN raced \cup {<<pending[r].subjectId, pending[r].kind>>}
                    ELSE raced
               /\ UNCHANGED ret
    /\ UNCHANGED <<backend, subjects, notes, summaries, flashcards,
                   questions, studyPlans, nextId, now, noteLog, patched,
                   page>>

\* update(subjects).set({ notesCount: subject.notesCount + 1 }), and the same
\* for flashcardsCount and questionsCount
CounterUpdate ==
  \E r \in Requests :
    /\ pending[r].pc = "selected"
    /\ pending[r].op \in {CreateOf(kind) : kind \in Kinds}
    /\ LET field == CounterOf(pending[r].kind)
       IN SetStore(DbSetSubject(Store, pending[r].subjectId,
                     [f \in {field} |-> pending[r].subject[field] + 1]))
    /\ pending' = [pending EXCEPT ![r] = Idle]
    /\ ret' = [op |-> pending[r].op, id |-> pending[r].id, result |-> TRUE]
    /\ UNCHANGED <<backend, nextId, now, noteLog, patched, raced, page>>

\* createFlashcards: insert(flashcards).values(insertFlashcards).returning()
\* and the set of the batch's subject ids
FlashcardsInsert ==
  \E r \in Requests, data \in Batches :
    /\ pending[r] = Idle
    /\ Created + Len(data) <= MaxRecords
    /\ LET ids  == FreshIds("flashcard", Len(data))
           rows == [i \in 1 .. Len(data) |-> FlashcardRow(data[i], ids[i])]
       IN SetStore(DbInsertAll(Store, "flashcards", rows))
    /\ Bump("flashcard", Len(data))
    /\ pending' = [pending EXCEPT ![r] =
                     [pc |-> "loop", op |-> "createFlashcards",
                      id |-> nextId.flashcard, data |-> data,
                      subjectIds |-> UniqueSubjectIds(data), counted |-> {}]]
    /\ UNCHANGED <<backend, now, ret, noteLog, patched, raced, page>>

\* createFlashcards: const [subject] = select().from(subjects).where(...);
\* with no subject the loop goes on to the next subject id
FlashcardsSelect ==
  \E r \in Requests :
    /\ pending[r].pc = "loop"
    /\ pending[r].subjectIds # <<>>
    /\ LET subject == DbSelectSubject(Store, Head(pending[r].subjectIds))
       IN pending' = [pending EXCEPT ![r] =
            IF subject = <<>>
            THEN [@ EXCEPT !.subjectIds = Tail(@)]
            ELSE [pc |-> "selected", op |-> "createFlashcards",
                  id |-> @.id, data |-> @.data, subjectIds |-> @.subjectIds,
                  counted |-> @.counted, subject |-> subject[1]]]
    /\ UNCHANGED <<backend, subjects, notes, summaries, flashcards,
                   questions, studyPlans, nextId, now, ret, noteLog, patched,
                   raced, page>>

\* createFlashcards: update(subjects)
\*   .set({ flashcardsCount: (subject.flashcardsCount || 0) + count })
FlashcardsUpdate ==
  \E r \in Requests :
    /\ pending[r].pc = "selected"
    /\ pending[r].op = "createFlashcards"
    /\ LET subId == Head(pending[r].subjectIds)
       IN /\ SetStore(DbSetSubject(Store, subId,
                 [flashcardsCount |->
                    pending[r].subject.flashcardsCount
                      + CountOf(pending[r].data, subId)]))
          /\ pending' = [pending EXCEPT ![r] =
                [pc |-> "loop", op |-> "createFlashcards",
                 id |-> @.id, data |-> @.data,
                 subjectIds |-> Tail(@.subjectIds),
                 counted |-> @.counted \cup {subId}]]
    /\ UNCHANGED <<backend, nextId, now, ret, noteLog, patched, raced, page>>

\* createFlashcards: return createdFlashcards; the route answers 200
FlashcardsReturn ==
  \E r \in Requests :
    /\ pending[r].pc = "loop"
    /\ pending[r].subjectIds = <<>>
    /\ pending' = [pending EXCEPT ![r] = Idle]
    /\ ret' = [op |-> "createFlashcards", id |-> pending[r].id,
               result |-> TRUE, data |-> pending[r].data,
               counted |-> pending[r].counted]
    /\ UNCHANGED <<backend, subjects, notes, summaries, flashcards,
                   questions, studyPlans, nextId, now, noteLog, patched,
                   raced, page>>

\* createFlashcards: the select or update under way rejects; nothing undoes
\* the statements already made, and the route's catch answers 500
FlashcardsStatementFails ==
  \E r \in Requests :
    /\ pending[r].pc \in {"loop", "selected"}
    /\ pending[r].op = "createFlashcards"
    /\ pending[r].subjectIds # <<>>
    /\ pending' = [pending EXCEPT ![r] = Idle]
    /\ ret' = [op |-> "createFlashcards", id |-> pending[r].id,
               result |-> FALSE, data |-> pending[r].data,
               counted |-> pending[r].counted]
    /\ UNCHANGED <<backend, subjects, notes, summaries, flashcards,
                   questions, studyPlans, nextId, now, noteLog, patched,
                   raced, page>>

\* ------------------------------------------------------------- routes
\* Whether the storage call of a request throws: MemStorage has no statement
\* that can, a statement of DatabaseStorage rejects when the database does
StorageOutcomes == IF backend = "db" THEN {"ok", "throws"} ELSE {"ok"}

\* Request bodies of POST /api/ai/summarize: one that summarizeRequestSchema
\* rejects, and valid ones naming a note and a subject
SummarizeBodies ==
  {[valid |-> FALSE]}
    \cup {[valid |-> TRUE, noteId |-> 0, subjectId |-> s] : s \in {1, 2}}

\* Replies whose top level is a JSON object, as response_format asks for
ListFields == {"keyPoints", "definitions", "formulas", "mainConcepts"}

SummaryReplyFields ==
  {[f \in ListFields |->
      IF f = "keyPoints" THEN k
      ELSE IF f \in present THEN Arr(<<Str("x")>>) ELSE Undefined] :
     k \in {Undefined, Null, Arr(<<>>), Arr(<<Str("x")>>)},
     present \in SUBSET (ListFields \ {"keyPoints"})}

SummaryReplies ==
  {ProviderThrows, NoContent, NotJson}
    \cup {Json(ObjOf([f \in DOMAIN g \cup {"fullSummary"} |->
                        IF f = "fullSummary" THEN full ELSE g[f]])) :
            g \in SummaryReplyFields,
            full \in {Undefined, Null, Str(""), Str("text")}}

\* The requests of a run that asks for summaries of subjects 1 and 2 in
\* turn, and a reply with which every one of them is stored
GoodSummarizeBodies ==
  {b \in SummarizeBodies : b.valid /\ b.subjectId = (nextId.summary % 2) + 1}

GoodSummaryReplies == {Json(Obj({<<"fullSummary", Str("text")>>}))}

\* The replies that differ in what the route stores, and the requests of a
\* run whose summaries are all of one subject
RouteSummaryReplies ==
  {ProviderThrows, NoContent, NotJson}
    \cup {Json(ObjOf([fullSummary |-> full])) :
            full \in {Undefined, Null, Str(""), Str("text")}}

OneSubjectBodies == {b \in SummarizeBodies : b.valid => b.subjectId = 1}

\* A call of summarizeContent
SummarizeContentCall ==
  \E reply \in SummaryReplies :
    /\ ret' = [op |-> "summarizeContent", id |-> 0, reply |-> reply,
               result |-> SummarizeContent(reply)]
    /\ UNCHANGED <<aux, patched, backend, subjects, notes, summaries,
                   flashcards, questions, studyPlans, nextId, now, noteLog>>

\* POST /api/ai/summarize storing a summary whatever the gateway did
PostAiSummarizeUnchecked(bodies, replies) ==
  \E body \in bodies, reply \in replies, storage \in StorageOutcomes :
    LET summaryResult == SummarizeContent(reply)
        cause == IF ~body.valid THEN "validation"
                 ELSE IF ~summaryResult.ok THEN "ai"
                 ELSE IF storage = "throws" THEN "storage" ELSE "none"
        written == body.valid /\ storage = "ok"
    IN /\ nextId.summary <= MaxSummaries
       /\ Cardinality({k \in DOMAIN summaries : summaries[k].createdAt = now})
            < MaxPerTick
       /\ IF written
          THEN LET data == [noteId |-> body.noteId,
                            subjectId |-> body.subjectId,
                            fullSummary |-> IF summaryResult.ok
                                            THEN summaryResult.value.fullSummary
                                            ELSE Str("")]
               IN /\ SetStore(Storage(
                       MemCreateSummary(Store, data, nextId.summary, now),
                       DbCreateSummary(Store, data, nextId.summary, now)))
                  /\ Bump("summary", 1)
          ELSE UNCHANGED <<subjects, notes, summaries, flashcards, questions,
                           studyPlans, nextId>>
       /\ ret' = [op |-> "POST /api/ai/summarize",
                  id |-> IF cause = "none" THEN nextId.summary ELSE 0,
                  result |-> cause = "none", cause |-> cause,
                  called |-> body.valid,
                  status |-> IF cause = "none" THEN 200 ELSE 500]
       /\ UNCHANGED <<aux, patched, backend, now, noteLog>>

\* POST /api/ai/summarize
PostAiSummarize(bodies, replies) ==
  \E body \in bodies, reply \in replies, storage \in StorageOutcomes :
    LET summaryResult == SummarizeContent(reply)
        cause == IF ~body.valid THEN "validation"
                 ELSE IF ~summaryResult.ok THEN "ai"
                 ELSE IF storage = "throws" THEN "storage" ELSE "none"
    IN /\ nextId.summary <= MaxSummaries
       /\ Cardinality({k \in DOMAIN summaries : summaries[k].createdAt = now})
            < MaxPerTick
       /\ IF cause = "none"
          THEN LET data == [noteId |-> body.noteId,
                            subjectId |-> body.subjectId,
                            fullSummary |-> summaryResult.value.fullSummary]
               IN /\ SetStore(Storage(
                       MemCreateSummary(Store, data, nextId.summary, now),
                       DbCreateSummary(Store, data, nextId.summary, now)))
                  /\ Bump("summary", 1)
          ELSE UNCHANGED <<subjects, notes, summaries, flashcards, questions,
                           studyPlans, nextId>>
       /\ ret' = [op |-> "POST /api/ai/summarize",
                  id |-> IF cause = "none" THEN nextId.summary ELSE 0,
                  result |-> cause = "none", cause |-> cause,
                  called |-> body.valid,
                  status |-> IF cause = "none" THEN 200 ELSE 500]
       /\ UNCHANGED <<aux, patched, backend, now, noteLog>>

\* array.map(f): a value that is no array has no map, and f throws on an
\* element that is null
MapThrows(v) ==
  \/ v.t # "array"
  \/ \E i \in 1 .. Len(v.a) : ~HasProperties(v.a[i])

\* count: z.number().min(1).max(20).default(10)
Counts == {1, 10, 20}

Card == Obj({<<"front", Str("q")>>, <<"back", Str("a")>>})

\* Replies to the flashcards prompt: a list of any length up to MaxCards,
\* whatever number the prompt asked for
FlashcardReplies ==
  {ProviderThrows, NoContent, NotJson, Json(Obj({}))}
    \cup {Json(Obj({<<"flashcards", v>>})) :
            v \in {Null, Str("none"), Arr(<<Null>>)}
                    \cup {Arr([i \in 1 .. n |-> Card]) : n \in 0 .. MaxCards}}

\* Request bodies of POST /api/ai/flashcards and POST /api/ai/questions
GenerateBodies ==
  {[valid |-> FALSE]}
    \cup {[valid |-> TRUE, subjectId |-> s, count |-> c] :
            s \in Known("subject"), c \in Counts}

\* A call of generateFlashcards
GenerateFlashcardsCall ==
  \E count \in Counts, reply \in FlashcardReplies :
    /\ ret' = [op |-> "generateFlashcards", id |-> 0, count |-> count,
               asked |-> FlashcardsFinalCount(count), reply |-> reply,
               result |-> GenerateFlashcards(count, reply)]
    /\ UNCHANGED <<aux, patched, backend, subjects, notes, summaries,
                   flashcards, questions, studyPlans, nextId, now, noteLog>>

\* POST /api/ai/flashcards
PostAiFlashcards(replies) ==
  \E body \in GenerateBodies, reply \in replies,
     storage \in StorageOutcomes :
    LET flashcardResults ==
          IF body.valid THEN GenerateFlashcards(body.count, reply) ELSE Thrown
        cause == IF ~body.valid THEN "validation"
                 ELSE IF ~flashcardResults.ok THEN "ai"
                 ELSE IF MapThrows(flashcardResults.value) THEN "reply"
                 ELSE IF storage = "throws" THEN "storage" ELSE "none"
        data == IF cause = "none"
                THEN [i \in 1 .. Len(flashcardResults.value.a) |->
                        [subjectId |-> body.subjectId,
                         difficulty |-> "medium"]]
                ELSE <<>>
        ids == FreshIds("flashcard", Len(data))
    IN /\ Cardinality(DOMAIN flashcards) < MaxRecords
       /\ IF cause = "none"
          THEN /\ SetStore(Storage(MemCreateFlashcards(Store, data, ids),
                                   DbCreateFlashcards(Store, data, ids)))
               /\ Bump("flashcard", Len(data))
          ELSE UNCHANGED <<subjects, notes, summaries, flashcards, questions,
                           studyPlans, nextId>>
       /\ ret' = [op |-> "POST /api/ai/flashcards",
                  id |-> IF cause = "none" THEN nextId.flashcard ELSE 0,
                  result |-> cause = "none", cause |-> cause,
                  called |-> body.valid,
                  stored |-> Len(data),
                  status |-> IF cause = "none" THEN 200 ELSE 500]
       /\ UNCHANGED <<aux, patched, backend, now, noteLog>>

QuestionItem == Obj({<<"type", Str("short")>>, <<"question", Str("q")>>})

\* Replies to the questions prompt: a list of any length up to MaxQuestions
QuestionReplies ==
  {ProviderThrows, NoContent, NotJson, Json(Obj({}))}
    \cup {Json(Obj({<<"questions", v>>})) :
            v \in {Null, Str("none"), Arr(<<Null>>)}
                    \cup {Arr([i \in 1 .. n |-> QuestionItem]) :
                            n \in 0 .. MaxQuestions}}

\* A call of generateQuestions
GenerateQuestionsCall ==
  \E count \in Counts, reply \in QuestionReplies :
    /\ ret' = [op |-> "generateQuestions", id |-> 0, count |-> count,
               asked |-> QuestionsFinalCount(count), reply |-> reply,
               result |-> GenerateQuestions(count, reply)]
    /\ UNCHANGED <<aux, patched, backend, subjects, notes, summaries,
                   flashcards, questions, studyPlans, nextId, now, noteLog>>

\* POST /api/ai/questions
PostAiQuestions(replies) ==
  \E body \in GenerateBodies, reply \in replies,
     storage \in StorageOutcomes :
    LET questionResults ==
          IF body.valid THEN GenerateQuestions(body.count, reply) ELSE Thrown
        cause == IF ~body.valid THEN "validation"
                 ELSE IF ~questionResults.ok THEN "ai"
                 ELSE IF MapThrows(questionResults.value) THEN "reply"
                 ELSE IF storage = "throws" THEN "storage" ELSE "none"
        data == IF cause = "none"
                THEN [i \in 1 .. Len(questionResults.value.a) |->
                        [subjectId |-> body.subjectId,
                         difficulty |-> "medium"]]
                ELSE <<>>
        ids == FreshIds("question", Len(data))
    IN /\ Cardinality(DOMAIN questions) < MaxRecords
       /\ IF cause = "none"
          THEN /\ SetStore(Storage(MemCreateQuestions(Store, data, ids),
                                   DbCreateQuestions(Store, data, ids)))
               /\ Bump("question", Len(data))
          ELSE UNCHANGED <<subjects, notes, summaries, flashcards, questions,
                           studyPlans, nextId>>
       /\ ret' = [op |-> "POST /api/ai/questions",
                  id |-> IF cause = "none" THEN nextId.question ELSE 0,
                  result |-> cause = "none", cause |-> cause,
                  called |-> body.valid,
                  stored |-> Len(data),
                  status |-> IF cause = "none" THEN 200 ELSE 500]
       /\ UNCHANGED <<aux, patched, backend, now, noteLog>>

\* The fields of a task the prompt asks for, and entries of a tasks list:
\* every choice of fields left out, the empty text, and null
TaskFields == {"topic", "subject", "duration", "priority", "date"}

TaskEntries ==
  {ObjOf([f \in TaskFields |->
            IF f \notin present THEN Undefined
            ELSE IF f = "date" THEN DateStr(<<0, 1>>) ELSE Str("x")]) :
     present \in SUBSET TaskFields}
    \cup {Obj({<<"topic", Str("")>>, <<"date", Null>>})}

\* Replies to the study plan prompt: every shape of the tasks entry
PlanReplies ==
  {ProviderThrows, NoContent, NotJson, Json(Obj({}))}
    \cup {Json(Obj({<<"tasks", v>>})) :
            v \in {Null, Str("none"), Arr(<<>>), Arr(<<Null>>),
                   Obj({<<"monday", Arr(<<Obj({})>>)>>})}
                    \cup {Arr(<<e>>) : e \in TaskEntries}
                    \cup {Arr(<<Obj({}), e>>) : e \in TaskEntries}}

\* A call of generateStudyPlan
GenerateStudyPlanCall ==
  \E reply \in PlanReplies :
    /\ ret' = [op |-> "generateStudyPlan", id |-> 0, reply |-> reply,
               today |-> ISODate(now),
               result |-> GenerateStudyPlan(reply, now)]
    /\ UNCHANGED <<aux, patched, backend, subjects, notes, summaries,
                   flashcards, questions, studyPlans, nextId, now, noteLog>>

\* Request bodies of POST /api/ai/study-plan
PlanBodies == {[valid |-> FALSE], [valid |-> TRUE]}

\* The replies that differ in what the route stores
RoutePlanReplies ==
  {ProviderThrows, NoContent, NotJson}
    \cup {Json(Obj({<<"tasks", v>>})) :
            v \in {Obj({<<"monday", Arr(<<Obj({})>>)>>}), Arr(<<Obj({})>>),
                   Arr(<<Obj({<<"topic", Str("x")>>,
                               <<"date", DateStr(<<0, 1>>)>>})>>)}}

\* POST /api/ai/study-plan
PostAiStudyPlan(replies) ==
  \E body \in PlanBodies, reply \in replies,
     storage \in StorageOutcomes :
    LET planResult ==
          IF body.valid THEN GenerateStudyPlan(reply, now) ELSE Thrown
        cause == IF ~body.valid THEN "validation"
                 ELSE IF ~planResult.ok THEN "ai"
                 ELSE IF storage = "throws" THEN "storage" ELSE "none"
        tasks == IF cause = "none" THEN planResult.value.tasks ELSE <<>>
        data == [tasks |-> [i \in 1 .. Len(tasks) |->
                              [id |-> 0, topic |-> TextOf(tasks[i].topic),
                               date |-> TextOf(tasks[i].date),
                               completed |-> FALSE]]]
        taskIds == FreshIds("task", Len(tasks))
    IN /\ nextId.plan <= MaxPlans
       /\ IF cause = "none"
          THEN /\ SetStore(Storage(
                    MemCreateStudyPlan(Store, data, nextId.plan, taskIds, now),
                    DbCreateStudyPlan(Store, data, nextId.plan, taskIds, now)))
               /\ nextId' = [nextId EXCEPT !.plan = @ + 1,
                                           !.task = @ + Len(tasks)]
          ELSE UNCHANGED <<subjects, notes, summaries, flashcards, questions,
                           studyPlans, nextId>>
       /\ ret' = [op |-> "POST /api/ai/study-plan",
                  id |-> IF cause = "none" THEN nextId.plan ELSE 0,
                  result |-> cause = "none", cause |-> cause,
                  called |-> body.valid,
                  stored |-> Len(tasks),
                  status |-> IF cause = "none" THEN 200 ELSE 500]
       /\ UNCHANGED <<aux, patched, backend, now, noteLog>>

\* ------------------------------------------- routes of stored records
\* What a request is answered with
Answer(op, id, result, cause, status) ==
  [op |-> op, id |-> id, result |-> result, cause |-> cause,
   status |-> status]

\* A body the schema accepts and one it rejects
SubjectBodies == {[valid |-> FALSE], [valid |-> TRUE]}

NoteBodies ==
  {[valid |-> FALSE]}
    \cup {[valid |-> TRUE, subjectId |-> s] : s \in Known("subject")}

\* GET of a whole collection
ListRoutes ==
  {"GET /api/subjects", "GET /api/notes", "GET /api/summaries",
   "GET /api/flashcards", "GET /api/questions", "GET /api/study-plans"}

GetList ==
  \E op \in ListRoutes, storage \in StorageOutcomes :
    /\ ret' = Answer(op, 0, storage = "ok",
                     IF storage = "ok" THEN "none" ELSE "storage",
                     IF storage = "ok" THEN 200 ELSE 500)
    /\ UNCHANGED <<aux, patched, backend, subjects, notes, summaries,
                   flashcards, questions, studyPlans, nextId, now, noteLog>>

\* POST /api/subjects: one catch for the schema's error and the storage's
PostSubjects ==
  \E body \in SubjectBodies, storage \in StorageOutcomes :
    LET cause == IF ~body.valid THEN "validation"
                 ELSE IF storage = "throws" THEN "storage" ELSE "none"
    IN /\ nextId.subject <= MaxSubjects
       /\ IF cause = "none"
          THEN /\ SetStore(Storage(
                    MemCreateSubject(Store, [name |-> "n"], nextId.subject),
                    DbCreateSubject(Store, [name |-> "n"], nextId.subject)))
               /\ Bump("subject", 1)
          ELSE UNCHANGED <<subjects, notes, summaries, flashcards, questions,
                           studyPlans, nextId>>
       /\ ret' = Answer("POST /api/subjects",
                        IF cause = "none" THEN nextId.subject ELSE 0,
                        cause = "none", cause,
                        IF cause = "none" THEN 201 ELSE 400)
       /\ UNCHANGED <<aux, patched, backend, now, noteLog>>

\* POST /api/notes (failure answers 400) and POST /api/notes/upload (a
\* missing field answers 400, a failing storage 500)
PostNotesTo(op, failureStatus) ==
  \E body \in NoteBodies, storage \in StorageOutcomes :
    LET cause == IF ~body.valid THEN "validation"
                 ELSE IF storage = "throws" THEN "storage" ELSE "none"
    IN /\ Created < MaxRecords
       /\ IF cause = "none"
          THEN /\ SetStore(Storage(
                    MemCreateNote(Store, [subjectId |-> body.subjectId],
                                  nextId.note),
                    DbCreateNote(Store, [subjectId |-> body.subjectId],
                                 nextId.note)))
               /\ Bump("note", 1)
               /\ noteLog' = [noteLog EXCEPT ![body.subjectId].created = @ + 1]
          ELSE UNCHANGED <<subjects, notes, summaries, flashcards, questions,
                           studyPlans, nextId, noteLog>>
       /\ ret' = Answer(op, IF cause = "none" THEN nextId.note ELSE 0,
                        cause = "none", cause,
                        IF cause = "none" THEN 201
                        ELSE IF cause = "validation" THEN 400
                        ELSE failureStatus)
       /\ UNCHANGED <<aux, patched, backend, now>>

PostNotes == PostNotesTo("POST /api/notes", 400)

PostNotesUpload == PostNotesTo("POST /api/notes/upload", 500)

\* The routes that look one record up by the id of the path
GetRoutes ==
  {[op |-> "GET /api/subjects/:id", kind |-> "subject", table |-> "subjects"],
   [op |-> "GET /api/notes/:id", kind |-> "note", table |-> "notes"],
   [op |-> "GET /api/summaries/:id", kind |-> "summary",
    table |-> "summaries"]}

\* getSubject, getNote, getSummary: Map.get, or the one row of the select
GetRow(st, table, id) == MapGet(st[table], id)

\* What a by-id route answers: 500 when storage threw, 404 when it returned
\* nothing, otherwise success
ByIdAnswer(op, id, storage, result, found, success) ==
  Answer(op, id, result,
         IF storage = "throws" THEN "storage"
         ELSE IF ~found THEN "missing" ELSE "none",
         IF storage = "throws" THEN 500 ELSE IF ~found THEN 404 ELSE success)

GetById ==
  \E r \in GetRoutes, storage \in StorageOutcomes :
    \E id \in Known(r.kind) :
      LET row == IF storage = "throws" THEN <<>>
                 ELSE GetRow(Store, r.table, id)
      IN /\ ret' = ByIdAnswer(r.op, id, storage, row, row # <<>>, 200)
         /\ UNCHANGED <<aux, patched, backend, subjects, notes, summaries,
                        flashcards, questions, studyPlans, nextId, now,
                        noteLog>>

\* PATCH /api/subjects/:id
PatchSubjectById ==
  \E id \in Known("subject"), data \in SubjectPatches,
     storage \in StorageOutcomes :
    LET st1 == IF storage = "throws" THEN Store
               ELSE Storage(MemUpdateSubject(Store, id, data),
                            DbUpdateSubject(Store, id, data))
        updated == IF storage = "throws" THEN <<>>
                   ELSE MapGet(st1.subjects, id)
    IN /\ SetStore(st1)
       /\ ret' = ByIdAnswer("PATCH /api/subjects/:id", id, storage, updated,
                            updated # <<>>, 200)
       /\ UNCHANGED <<aux, patched, backend, now, nextId, noteLog>>

\* DELETE /api/subjects/:id
DeleteSubjectById ==
  \E id \in Known("subject"), storage \in StorageOutcomes :
    LET st1 == IF storage = "throws" THEN Store
               ELSE Storage(MemDeleteSubject(Store, id),
                            DbDeleteSubject(Store, id))
        deleted == storage = "ok" /\ id \in DOMAIN subjects
    IN /\ SetStore(st1)
       /\ ret' = ByIdAnswer("DELETE /api/subjects/:id", id, storage, deleted,
                            deleted, 204)
       /\ UNCHANGED <<aux, patched, backend, now, nextId, noteLog>>

\* A request body of PATCH /api/flashcards/:id that rates the flashcard
ReviewPatches == {[difficulty |-> "easy"]}

\* PATCH /api/flashcards/:id
PatchFlashcardById(patches) ==
  \E id \in Known("flashcard"), data \in patches,
     storage \in StorageOutcomes :
    LET st1 == IF storage = "throws" THEN Store
               ELSE Storage(MemUpdateFlashcard(Store, id, data, now),
                            DbUpdateFlashcard(Store, id, data, now))
        updated == IF storage = "throws" THEN <<>>
                   ELSE MapGet(st1.flashcards, id)
    IN /\ id \in DOMAIN flashcards => flashcards[id].timesReviewed < MaxReviews
       /\ SetStore(st1)
       /\ ret' = ByIdAnswer("PATCH /api/flashcards/:id", id, storage, updated,
                            updated # <<>>, 200)
       /\ UNCHANGED <<aux, patched, backend, now, nextId, noteLog>>

\* POST /api/ai/chat: nothing is stored
ChatReplies == {ProviderThrows, NoContent, NotJson}

PostAiChat ==
  \E body \in SubjectBodies, reply \in ChatReplies :
    LET cause == IF ~body.valid THEN "validation"
                 ELSE IF ~ChatWithAI(reply).ok THEN "ai" ELSE "none"
    IN /\ ret' = [op |-> "POST /api/ai/chat", id |-> 0,
                  result |-> cause = "none", cause |-> cause,
                  called |-> body.valid,
                  status |-> IF cause = "none" THEN 200 ELSE 500]
       /\ UNCHANGED <<aux, patched, backend, subjects, notes, summaries,
                      flashcards, questions, studyPlans, nextId, now, noteLog>>

\* PATCH /api/study-plans/:planId/tasks/:taskId
PatchTaskById ==
  \E path \in TaskPaths, data \in TogglePatches,
     storage \in StorageOutcomes :
    LET planId == path[1]
        taskId == path[2]
        st1 == IF storage = "throws" THEN Store
               ELSE Storage(
                      MemUpdateStudyPlanTask(Store, planId, taskId, data),
                      DbUpdateStudyPlanTask(Store, planId, taskId, data))
        plan == IF storage = "throws" THEN <<>>
                ELSE GetStudyPlan(Store, planId)
        answer == ByIdAnswer("PATCH /api/study-plans/:planId/tasks/:taskId",
                             planId, storage, plan # <<>>, plan # <<>>, 200)
    IN /\ patched < MaxPatches
       /\ patched' = patched + 1
       /\ SetStore(st1)
       /\ ret' = [op |-> answer.op, id |-> planId, taskId |-> taskId,
                  result |-> answer.result, cause |-> answer.cause,
                  status |-> answer.status]
       /\ UNCHANGED <<aux, backend, now, nextId, noteLog>>

\* Replies with which the generating routes store one record, and the
\* provider's failure
OneCardReplies ==
  {ProviderThrows, Json(Obj({<<"flashcards", Arr(<<Card>>)>>}))}

OneQuestionReplies ==
  {ProviderThrows, Json(Obj({<<"questions", Arr(<<QuestionItem>>)>>}))}

\* The difficulty update of the flashcards page: PATCH /api/flashcards/:id
\* with { difficulty } on a stored flashcard
DifficultyPatches == {[difficulty |-> "easy"], [difficulty |-> "hard"]}

UpdateDifficulty ==
  \E id \in DOMAIN flashcards, data \in DifficultyPatches :
    /\ flashcards[id].timesReviewed < MaxUpdates
    /\ SetStore(Storage(MemUpdateFlashcard(Store, id, data, now),
                        DbUpdateFlashcard(Store, id, data, now)))
    /\ ret' = [op |-> "updateFlashcard", id |-> id, result |-> TRUE]
    /\ UNCHANGED <<aux, patched, backend, now, nextId, noteLog>>

\* ------------------------------ MemStorage.createFlashcards, item by item
\* A MemStorage method runs to its end without giving way, except
\* createFlashcards, which awaits each createFlashcard: between two items
\* of a batch other requests run.
SameSubjectBatches ==
  {[i \in 1 .. n |-> [subjectId |-> s, difficulty |-> "medium"]] :
     n \in 1 .. MaxBatch, s \in Known("subject")}

\* Items the batches under way have still to create
Outstanding(r) == IF pending[r] = Idle THEN 0 ELSE Len(pending[r].rest)

RECURSIVE OutstandingUpTo(_)
OutstandingUpTo(r) ==
  IF r = 0 THEN 0 ELSE Outstanding(r) + OutstandingUpTo(r - 1)

\* What is left of MaxInFlight once the subjects, the records and the items
\* still to come are counted
InFlightLeft ==
  MaxInFlight
    - ((nextId.subject - 1) + Created + OutstandingUpTo(MaxRequests))

\* createFlashcards is called by the first free request (requests are
\* interchangeable): the first createFlashcard runs at once, then
\* the loop awaits
MemBatchBegin ==
  \E r \in Requests, data \in SameSubjectBatches :
    /\ backend = "mem"
    /\ pending[r] = Idle
    /\ \A q \in 1 .. r - 1 : pending[q] # Idle
    /\ Len(data) <= InFlightLeft
    /\ SetStore(MemCreateFlashcard(Store, Head(data), nextId.flashcard))
    /\ Bump("flashcard", 1)
    /\ pending' = [pending EXCEPT ![r] =
                     [pc |-> "awaiting", rest |-> Tail(data),
                      ids |-> {nextId.flashcard}]]
    /\ UNCHANGED <<backend, now, ret, noteLog, patched, raced, page>>

\* The loop resumes: the next createFlashcard runs, or the batch returns
MemBatchResume ==
  \E r \in Requests :
    /\ pending[r] # Idle
    /\ pending[r].pc = "awaiting"
    /\ IF pending[r].rest # <<>>
       THEN /\ SetStore(MemCreateFlashcard(Store, Head(pending[r].rest),
                                           nextId.flashcard))
            /\ Bump("flashcard", 1)
            /\ pending' = [pending EXCEPT ![r] =
                             [pc |-> "awaiting", rest |-> Tail(@.rest),
                              ids |-> @.ids \cup {nextId.flashcard}]]
            /\ UNCHANGED ret
       ELSE /\ pending' = [pending EXCEPT ![r] = Idle]
            /\ ret' = [op |-> "createFlashcards", id |-> 0, result |-> TRUE,
                       ids |-> pending[r].ids]
            /\ UNCHANGED <<subjects, notes, summaries, flashcards, questions,
                           studyPlans, nextId>>
    /\ UNCHANGED <<backend, now, noteLog, patched, raced, page>>

\* ----------------- DatabaseStorage deletions, statement by statement
DeleteOf(kind) ==
  CASE kind = "note" -> "deleteNote"
    [] kind = "flashcard" -> "deleteFlashcard"
    [] kind = "question" -> "deleteQuestion"

Deletions == {DeleteOf(kind) : kind \in Kinds}

\* deleteNote, deleteFlashcard, deleteQuestion:
\* const [note] = select().from(notes).where(eq(notes.id, id))
RecordSelect ==
  \E r \in Requests, kind \in Kinds :
    \E id \in Known(kind) :
      LET row == MapGet(Store[TableOf(kind)], id)
      IN /\ backend = "db"
         /\ pending[r] = Idle
         /\ pending' = [pending EXCEPT ![r] =
                          IF row = <<>>
                          THEN [pc |-> "deleting", op |-> DeleteOf(kind),
                                kind |-> kind, id |-> id]
                          ELSE [pc |-> "found", op |-> DeleteOf(kind),
                                kind |-> kind, id |-> id,
                                subjectId |-> row[1].subjectId]]
         /\ UNCHANGED <<backend, subjects, notes, summaries, flashcards,
                        questions, studyPlans, nextId, now, ret, noteLog,
                        patched, raced, page>>

\* const [subject] = select().from(subjects).where(eq(subjects.id,
\* note.subjectId)); with no subject the call goes on to the delete
OwnerSelect ==
  \E r \in Requests :
    /\ pending[r].pc = "found"
    /\ LET subject == DbSelectSubject(Store, pending[r].subjectId)
       IN pending' = [pending EXCEPT ![r] =
                        IF subject = <<>>
                        THEN [pc |-> "deleting", op |-> @.op,
                              kind |-> @.kind, id |-> @.id]
                        ELSE [pc |-> "selected", op |-> @.op,
                              kind |-> @.kind, id |-> @.id,
                              subjectId |-> @.subjectId,
                              subject |-> subject[1]]]
    /\ UNCHANGED <<backend, subjects, notes, summaries, flashcards,
                   questions, studyPlans, nextId, now, ret, noteLog,
                   patched, raced, page>>

\* update(subjects).set({ notesCount: Math.max(0, (subject.notesCount || 0)
\* - 1) }), and the same for flashcardsCount and questionsCount
CounterDecrement ==
  \E r \in Requests :
    /\ pending[r].pc = "selected"
    /\ pending[r].op \in Deletions
    /\ LET field == CounterOf(pending[r].kind)
       IN SetStore(DbSetSubject(Store, pending[r].subjectId,
                     [f \in {field} |->
                        MathMax(0, pending[r].subject[field] - 1)]))
    /\ pending' = [pending EXCEPT ![r] =
                     [pc |-> "deleting", op |-> @.op, kind |-> @.kind,
                      id |-> @.id]]
    /\ UNCHANGED <<backend, nextId, now, ret, noteLog, patched, raced, page>>

\* const [deleted] = delete(notes).where(eq(notes.id, id)).returning();
\* return !!deleted
RecordDelete ==
  \E r \in Requests :
    /\ pending[r].pc = "deleting"
    /\ SetStore(DbDeleteById(Store, TableOf(pending[r].kind), pending[r].id))
    /\ pending' = [pending EXCEPT ![r] = Idle]
    /\ ret' = [op |-> pending[r].op, id |-> pending[r].id,
               result |-> pending[r].id \in DOMAIN Store[TableOf(pending[r].kind)]]
    /\ UNCHANGED <<backend, nextId, now, noteLog, patched, raced, page>>

\* ------------- DatabaseStorage.deleteSubject, statement by statement
\* The tables deleteSubject clears of the subject's records, in its order
CascadeTables == <<"notes", "summaries", "flashcards", "questions">>

\* deleteSubject is called for a stored subject:
\* delete(notes).where(eq(notes.subjectId, id))
CascadeBegin ==
  \E r \in Requests, id \in DOMAIN subjects :
    /\ backend = "db"
    /\ pending[r] = Idle
    /\ SetStore(DbDeleteOfSubject(Store, CascadeTables[1], id))
    /\ pending' = [pending EXCEPT ![r] =
                     [pc |-> "cascade", op |-> "deleteSubject", id |-> id,
                      done |-> 1]]
    /\ UNCHANGED <<backend, nextId, now, ret, noteLog, patched, raced, page>>

\* The deletes of summaries, flashcards and questions, one after the other
ChildrenDelete ==
  \E r \in Requests :
    /\ pending[r].pc = "cascade"
    /\ pending[r].done < Len(CascadeTables)
    /\ SetStore(DbDeleteOfSubject(Store, CascadeTables[pending[r].done + 1],
                                  pending[r].id))
    /\ pending' = [pending EXCEPT ![r].done = @ + 1]
    /\ UNCHANGED <<backend, nextId, now, ret, noteLog, patched, raced, page>>

\* const [deleted] = delete(subjects).where(eq(subjects.id, id)).returning();
\* return !!deleted
SubjectDelete ==
  \E r \in Requests :
    /\ pending[r].pc = "cascade"
    /\ pending[r].done = Len(CascadeTables)
    /\ SetStore(DbDeleteById(Store, "subjects", pending[r].id))
    /\ pending' = [pending EXCEPT ![r] = Idle]
    /\ ret' = [op |-> "deleteSubject", id |-> pending[r].id,
               result |-> pending[r].id \in DOMAIN subjects]
    /\ UNCHANGED <<backend, nextId, now, noteLog, patched, raced, page>>

\* ------------------------------------------------- the upload page
\* page holds the state of UploadPage: the useState values, the last toast,
\* the request or timer whose completion the page awaits, and the location.
InitialPage ==
  [activeTab |-> "file", files |-> 0, textContent |-> "",
   selectedSubject |-> "", isProcessing |-> FALSE, processingStep |-> "",
   processingProgress |-> 0, toast |-> "", awaiting |-> "nothing",
   location |-> "/upload"]

\* textContent.trim()
Trim(text) == IF text = " " THEN "" ELSE text

\* What a request comes back with
Responses == {"ok", "failed"}

serverVars ==
  <<backend, subjects, notes, summaries, flashcards, questions, studyPlans,
    nextId, now, ret, noteLog, raced, pending, patched>>

\* The form is shown while isProcessing is false: the user picks a subject
\* and a tab, drops or removes a file, types or clears the text
EditForm ==
  /\ page.location = "/upload"
  /\ ~page.isProcessing
  /\ \/ \E s \in {"", "s"} : page' = [page EXCEPT !.selectedSubject = s]
     \/ \E tab \in {"file", "text"} : page' = [page EXCEPT !.activeTab = tab]
     \/ \E n \in {0, 1} : page' = [page EXCEPT !.files = n]
     \/ \E text \in {"", " ", "x"} : page' = [page EXCEPT !.textContent = text]
  /\ UNCHANGED serverVars

\* processNote up to its await: setProcessingStep("Analyzing content..."),
\* setProcessingProgress(40), then the 500 ms timer
ProcessNote(p) ==
  [p EXCEPT !.processingStep = "Analyzing content...",
            !.processingProgress = 40,
            !.awaiting = "timer"]

\* handleSubmit, from the button of the form
HandleSubmit ==
  /\ page.location = "/upload"
  /\ ~page.isProcessing
  /\ page' =
       IF page.selectedSubject = ""
       THEN [page EXCEPT !.toast = "Select a subject"]
       ELSE IF page.activeTab = "file" /\ page.files = 0
       THEN [page EXCEPT !.toast = "No file selected"]
       ELSE IF page.activeTab = "text" /\ Trim(page.textContent) = ""
       THEN [page EXCEPT !.toast = "No content"]
       ELSE [page EXCEPT !.isProcessing = TRUE,
                         !.processingStep = "Uploading...",
                         !.processingProgress = 20,
                         !.awaiting = IF page.activeTab = "file"
                                      THEN "upload" ELSE "note"]
  /\ UNCHANGED serverVars

\* uploadMutation whose onError leaves isProcessing as it is
UploadMutationKeepsProcessing ==
  /\ page.awaiting = "upload"
  /\ \E response \in Responses :
       page' = IF response = "ok" THEN ProcessNote(page)
               ELSE [page EXCEPT !.toast = "Upload failed",
                                 !.awaiting = "nothing"]
  /\ UNCHANGED serverVars

\* uploadMutation: POST /api/notes/upload has answered; onSuccess calls
\* processNote, onError gives up
UploadMutation ==
  /\ page.awaiting = "upload"
  /\ \E response \in Responses :
       page' = IF response = "ok" THEN ProcessNote(page)
               ELSE [page EXCEPT !.isProcessing = FALSE,
                                 !.toast = "Upload failed",
                                 !.awaiting = "nothing"]
  /\ UNCHANGED serverVars

\* handleSubmit after its await: POST /api/notes has answered; processNote on
\* success, the catch otherwise
SaveNote ==
  /\ page.awaiting = "note"
  /\ \E response \in Responses :
       page' = IF response = "ok" THEN ProcessNote(page)
               ELSE [page EXCEPT !.isProcessing = FALSE,
                                 !.toast = "Error",
                                 !.awaiting = "nothing"]
  /\ UNCHANGED serverVars

\* processNote after its await: setProcessingStep("Generating summary..."),
\* setProcessingProgress(60), summarizeMutation.mutate
GenerateSummary ==
  /\ page.awaiting = "timer"
  /\ page' = [page EXCEPT !.processingStep = "Generating summary...",
                          !.processingProgress = 60,
                          !.awaiting = "summarize"]
  /\ UNCHANGED serverVars

\* summarizeMutation: POST /api/ai/summarize has answered; onSuccess ends the
\* processing at 100 and navigates to the summary, onError gives up
SummarizeMutation ==
  /\ page.awaiting = "summarize"
  /\ \E response \in Responses :
       page' = IF response = "ok"
               THEN [page EXCEPT !.isProcessing = FALSE,
                                 !.processingProgress = 100,
                                 !.toast = "Summary created!",
                                 !.awaiting = "nothing",
                                 !.location = "/summaries/:id"]
               ELSE [page EXCEPT !.isProcessing = FALSE,
                                 !.toast = "Processing failed",
                                 !.awaiting = "nothing"]
  /\ UNCHANGED serverVars

\* The user comes back to the upload page, which mounts anew
Revisit ==
  /\ page.location # "/upload"
  /\ page' = InitialPage
  /\ UNCHANGED serverVars

InitAt(clock) ==
  /\ backend \in {"mem", "db"}
  /\ subjects = EmptyMap
  /\ notes = EmptyMap
  /\ summaries = EmptyMap
  /\ flashcards = EmptyMap
  /\ questions = EmptyMap
  /\ studyPlans = <<>>
  /\ nextId = [subject |-> 1, note |-> 1, summary |-> 1, flashcard |-> 1,
               question |-> 1, plan |-> 1, task |-> 1]
  /\ now = clock
  /\ ret = [op |-> "init", id |-> 0, result |-> TRUE]
  /\ noteLog = [s \in 0 .. MaxSubjects |-> [created |-> 0, deleted |-> 0]]
  /\ patched = 0
  /\ pending = [r \in Requests |-> Idle]
  /\ raced = {}
  /\ page = InitialPage

Init == InitAt(0)

\* DATABASE_URL is set
InitDb == Init /\ backend = "db"

\* The server starts at any time of the clock
InitClock == \E clock \in 0 .. MaxClock : InitAt(clock)

\* Every storage operation on subjects and their child records, one at a time
Next ==
  \/ CreateSubject \/ UpdateSubject \/ DeleteSubject
  \/ CreateNote \/ DeleteNote
  \/ CreateSummary \/ DeleteSummary
  \/ CreateFlashcard \/ CreateFlashcards \/ UpdateFlashcard \/ DeleteFlashcard
  \/ CreateQuestion \/ CreateQuestions \/ DeleteQuestion

Spec == Init /\ [][Next]_vars

\* Notes only: subjects are created and deleted, notes created and deleted
NextNotes == CreateSubject \/ DeleteSubject \/ CreateNote \/ DeleteNote

SpecNotes == Init /\ [][NextNotes]_vars

\* Creation of every kind of record, and the cascade
NextCascade ==
  \/ CreateSubject \/ DeleteSubject \/ CreateNote \/ CreateSummary
  \/ CreateFlashcard \/ CreateQuestion

SpecCascade == Init /\ [][NextCascade]_vars

\* Counter maintenance: children of the three counted kinds come and go,
\* and subjects are patched
NextCounters ==
  \/ CreateSubject \/ UpdateSubject
  \/ CreateNote \/ DeleteNote
  \/ CreateFlashcard \/ DeleteFlashcard
  \/ CreateQuestion \/ DeleteQuestion

SpecCounters == Init /\ [][NextCounters]_vars

\* Batch creation next to single creation and the cascade
NextBatch ==
  \/ CreateSubject \/ DeleteSubject
  \/ CreateFlashcard \/ CreateFlashcards \/ CreateQuestions

SpecBatch == Init /\ [][NextBatch]_vars

\* Study plans and their tasks
NextPlan == CreateStudyPlan(ShortPlans) \/ PatchTask

SpecPlan == Init /\ [][NextPlan]_vars

\* The dashboard over study plans
NextDash == CreateStudyPlan(LongPlans) \/ ToggleTask \/ GetDashboardStats

SpecDash == InitClock /\ [][NextDash]_vars

\* Single-record creations of DatabaseStorage that interleave
NextRace == CreateSubject \/ RecordInsert \/ SubjectSelect \/ CounterUpdate

SpecRace == InitDb /\ [][NextRace]_vars

\* createFlashcards calls of DatabaseStorage whose statements can fail
NextFail ==
  \/ CreateSubject
  \/ FlashcardsInsert \/ FlashcardsSelect \/ FlashcardsUpdate
  \/ FlashcardsReturn \/ FlashcardsStatementFails

SpecFail == InitDb /\ [][NextFail]_vars

\* Summaries stored over time, and the dashboard
NextRecent ==
  \/ PostAiSummarize(GoodSummarizeBodies, GoodSummaryReplies)
  \/ Tick \/ GetDashboardStats

SpecRecent == Init /\ [][NextRecent]_vars

\* summarizeContent and the route that stores what it returns
NextSummarize ==
  \/ SummarizeContentCall
  \/ PostAiSummarize(OneSubjectBodies, RouteSummaryReplies)

SpecSummarize == Init /\ [][NextSummarize]_vars

\* generateFlashcards and the route that stores what it returns
NextFlashcards ==
  GenerateFlashcardsCall \/ PostAiFlashcards(FlashcardReplies)

SpecFlashcards == Init /\ [][NextFlashcards]_vars

\* generateStudyPlan and the route that stores what it returns
NextGeneratePlan ==
  GenerateStudyPlanCall \/ PostAiStudyPlan(RoutePlanReplies)

SpecGeneratePlan == InitClock /\ [][NextGeneratePlan]_vars

\* generateQuestions and the route that stores what it returns
NextQuestions == GenerateQuestionsCall \/ PostAiQuestions(QuestionReplies)

SpecQuestions == Init /\ [][NextQuestions]_vars

\* Records of every kind are created, and looked up, patched and deleted by
\* id through the routes
NextById ==
  \/ /\ (nextId.subject - 1) + Created < MaxStored
     /\ \/ CreateSubject \/ CreateNote \/ CreateSummary \/ CreateFlashcard
  \/ GetById \/ PatchSubjectById \/ DeleteSubjectById
  \/ PatchFlashcardById(ReviewPatches)

SpecById == Init /\ [][NextById]_vars

\* Every route, with at most MaxRecords records created in a run
NextRoutes ==
  \/ /\ (nextId.subject - 1) + Created + (nextId.plan - 1) < MaxRecords
     /\ \/ PostSubjects \/ PostNotes \/ PostNotesUpload
        \/ PostAiSummarize(OneSubjectBodies, RouteSummaryReplies)
        \/ PostAiFlashcards(OneCardReplies)
        \/ PostAiQuestions(OneQuestionReplies)
        \/ PostAiStudyPlan(RoutePlanReplies)
  \/ GetList \/ GetById \/ PatchSubjectById \/ DeleteSubjectById
  \/ PatchFlashcardById(ReviewPatches) \/ PatchTaskById \/ PostAiChat

SpecRoutes == Init /\ [][NextRoutes]_vars

\* Flashcards are created and their difficulty is updated again and again
NextReview == CreateSubject \/ CreateFlashcard \/ UpdateDifficulty

SpecReview == Init /\ [][NextReview]_vars

\* The five AI endpoints, each answering requests one after the other
NextAi ==
  \/ /\ Created + (nextId.plan - 1) < MaxRecords
     /\ \/ PostAiSummarize(OneSubjectBodies, RouteSummaryReplies)
        \/ PostAiFlashcards(OneCardReplies)
        \/ PostAiQuestions(OneQuestionReplies)
        \/ PostAiStudyPlan(RoutePlanReplies)
  \/ PostAiChat

SpecAi == Init /\ [][NextAi]_vars

\* Notes are posted and uploaded while subjects are created and deleted
NextNoteRoutes ==
  \/ /\ (nextId.subject - 1) + Created < MaxStored
     /\ (PostSubjects \/ PostNotes \/ PostNotesUpload)
  \/ DeleteSubjectById

SpecNoteRoutes == Init /\ [][NextNoteRoutes]_vars

\* Plans are created and their tasks are patched through the route
NextTaskRoute == CreateStudyPlan(ShortPlans) \/ PatchTaskById

SpecTaskRoute == Init /\ [][NextTaskRoute]_vars

\* DATABASE_URL is not set
InitMem == Init /\ backend = "mem"

\* MemStorage under concurrent requests: batches interleave item by item
\* with each other and with single creations and deletions
NextMemBatch ==
  \/ /\ InFlightLeft > 0
     /\ \/ CreateSubject \/ MemBatchBegin
        \/ CreateNote \/ CreateFlashcard \/ CreateQuestion
  \/ MemBatchResume \/ DeleteNote \/ DeleteFlashcard \/ DeleteQuestion

SpecMemBatch == InitMem /\ [][NextMemBatch]_vars

\* DatabaseStorage deletions of concurrent requests; creations run one at a
\* time while no deletion is under way
NextDeleteRace ==
  \/ /\ AllIdle
     /\ (CreateSubject \/ CreateNote \/ CreateFlashcard \/ CreateQuestion)
  \/ RecordSelect \/ OwnerSelect \/ CounterDecrement \/ RecordDelete

SpecDeleteRace == InitDb /\ [][NextDeleteRace]_vars

\* DatabaseStorage.deleteSubject next to concurrent creations
NextCascadeRace ==
  \/ CreateSubject \/ RecordInsert \/ SubjectSelect \/ CounterUpdate
  \/ CascadeBegin \/ ChildrenDelete \/ SubjectDelete

SpecCascadeRace == InitDb /\ [][NextCascadeRace]_vars

\* The upload page
NextUpload ==
  \/ EditForm \/ HandleSubmit \/ UploadMutation \/ SaveNote
  \/ GenerateSummary \/ SummarizeMutation \/ Revisit

SpecUpload == Init /\ [][NextUpload]_vars

\* Every request the page has issued is answered and its timer fires
SpecUploadFair ==
  /\ SpecUpload
  /\ WF_vars(UploadMutation)
  /\ WF_vars(SaveNote)
  /\ WF_vars(GenerateSummary)
  /\ WF_vars(SummarizeMutation)

\* ------------------------------------------------------------------ claims
ChildrenOf(m, s) == Cardinality({k \in DOMAIN m : m[k].subjectId = s})

\* C1: with createNote and deleteNote calls run one after the other, every
\* stored subject's notesCount is the number of notes created for it minus
\* the number of those notes deleted.
C1_NotesCountIsCreatedMinusDeleted ==
  \A s \in DOMAIN subjects :
    subjects[s].notesCount = noteLog[s].created - noteLog[s].deleted

C1_Witness ==
  \E s \in DOMAIN subjects :
    /\ noteLog[s].created = 2
    /\ noteLog[s].deleted = 1
    /\ subjects[s].notesCount = 1

\* C2: in every state reached by storage operations run one after the other,
\* each subject's three counters equal the numbers of stored notes,
\* flashcards and questions whose subjectId is that subject's id.
C2_CountsEqualStoredChildren ==
  \A s \in DOMAIN subjects :
    /\ subjects[s].notesCount = ChildrenOf(notes, s)
    /\ subjects[s].flashcardsCount = ChildrenOf(flashcards, s)
    /\ subjects[s].questionsCount = ChildrenOf(questions, s)

\* Every subject filter a query can be given: none, or a known identifier
Filters == {<<>>} \cup {<<s>> : s \in Known("subject")}

NoneOfSubject(st, id) ==
  \A f \in Filters :
    /\ \A r \in GetNotes(st, f) : r.subjectId # id
    /\ \A r \in GetSummaries(st, f) : r.subjectId # id
    /\ \A r \in GetFlashcards(st, f) : r.subjectId # id
    /\ \A r \in GetQuestions(st, f) : r.subjectId # id

\* m2 is m without the records of subject id, and nothing else changed
OthersKept(m, m2, id) ==
  /\ DOMAIN m2 = {k \in DOMAIN m : m[k].subjectId # id}
  /\ \A k \in DOMAIN m2 : m2[k] = m[k]

\* C3: a deleteSubject(id) step leaves no note, summary, flashcard or
\* question of that subject stored or returned by any query, and leaves the
\* records of every other subject, and the other subjects, as they were.
C3_DeleteSubjectCascades ==
  [][ret'.op = "deleteSubject" =>
       /\ NoneOfSubject(Store', ret'.id)
       /\ OthersKept(notes, notes', ret'.id)
       /\ OthersKept(summaries, summaries', ret'.id)
       /\ OthersKept(flashcards, flashcards', ret'.id)
       /\ OthersKept(questions, questions', ret'.id)
       /\ subjects' = MapDelete(subjects, ret'.id)]_vars

Stored ==
  Cardinality(DOMAIN notes) + Cardinality(DOMAIN summaries)
    + Cardinality(DOMAIN flashcards) + Cardinality(DOMAIN questions)

\* a subject was deleted, its records went with it, another's record stayed
C3_Witness ==
  /\ ret.op = "deleteSubject"
  /\ ret.result
  /\ Stored < Created
  /\ \E k \in DOMAIN summaries : summaries[k].subjectId \in DOMAIN subjects

CounterStep(old, new, s, field, value) ==
  s \in DOMAIN old =>
    /\ new = MapSet(old, s, Spread(old[s], [f \in {field} |-> value]))
    /\ value >= 0

\* C5: a step creating a note, flashcard or question raises the matching
\* counter of the owning subject by exactly one, a step deleting one lowers
\* it by one but not below zero, and no other counter changes.
C5_CountersStepByOneFlooredAtZero ==
  [][/\ ret'.op = "createNote" =>
          LET s == notes'[ret'.id].subjectId
          IN CounterStep(subjects, subjects', s, "notesCount",
                         subjects[s].notesCount + 1)
     /\ ret'.op = "createFlashcard" =>
          LET s == flashcards'[ret'.id].subjectId
          IN CounterStep(subjects, subjects', s, "flashcardsCount",
                         subjects[s].flashcardsCount + 1)
     /\ ret'.op = "createQuestion" =>
          LET s == questions'[ret'.id].subjectId
          IN CounterStep(subjects, subjects', s, "questionsCount",
                         subjects[s].questionsCount + 1)
     /\ (ret'.op = "deleteNote" /\ ret'.result) =>
          LET s == notes[ret'.id].subjectId
          IN CounterStep(subjects, subjects', s, "notesCount",
                         MathMax(0, subjects[s].notesCount - 1))
     /\ (ret'.op = "deleteFlashcard" /\ ret'.result) =>
          LET s == flashcards[ret'.id].subjectId
          IN CounterStep(subjects, subjects', s, "flashcardsCount",
                         MathMax(0, subjects[s].flashcardsCount - 1))
     /\ (ret'.op = "deleteQuestion" /\ ret'.result) =>
          LET s == questions[ret'.id].subjectId
          IN CounterStep(subjects, subjects', s, "questionsCount",
                         MathMax(0, subjects[s].questionsCount - 1))
     /\ \A s \in DOMAIN subjects' :
          /\ subjects'[s].notesCount >= 0
          /\ subjects'[s].flashcardsCount >= 0
          /\ subjects'[s].questionsCount >= 0]_vars

\* a flashcard was deleted while its subject's counter stood at zero or one,
\* and the counter is zero with a flashcard of the subject still stored
C5_Witness ==
  /\ ret.op = "deleteFlashcard"
  /\ ret.result
  /\ \E s \in DOMAIN subjects :
       /\ subjects[s].flashcardsCount = 0
       /\ ChildrenOf(flashcards, s) = 1

\* C6: every createFlashcards and createQuestions step, whichever backend
\* takes it and whatever the batch, ends in the store that MemStorage's
\* method and DatabaseStorage's method both compute from the state before:
\* the same records and the same counters.
C6_BatchCreationSameInBothBackends ==
  [][/\ ret'.op = "createFlashcards" =>
          LET ids == FreshIds("flashcard", Len(ret'.data))
          IN /\ Store' = MemCreateFlashcards(Store, ret'.data, ids)
             /\ Store' = DbCreateFlashcards(Store, ret'.data, ids)
     /\ ret'.op = "createQuestions" =>
          LET ids == FreshIds("question", Len(ret'.data))
          IN /\ Store' = MemCreateQuestions(Store, ret'.data, ids)
             /\ Store' = DbCreateQuestions(Store, ret'.data, ids)]_vars

\* a batch of two flashcards has been created, one for a stored subject,
\* which counts it, and one naming a subject that is not stored
C6_Witness ==
  /\ ret.op = "createFlashcards"
  /\ nextId.flashcard = ret.id + 2
  /\ {ret.id, ret.id + 1} \subseteq DOMAIN flashcards
  /\ flashcards[ret.id].subjectId \in DOMAIN subjects
  /\ subjects[flashcards[ret.id].subjectId].flashcardsCount = 1
  /\ flashcards[ret.id + 1].subjectId \notin DOMAIN subjects


\* C4: once every createNote, createFlashcard and createQuestion call of
\* DatabaseStorage has returned, each counter of a subject is at most the
\* number of stored records it counts, and it is smaller only if one call read
\* the subject while another call of the same kind had read it and not yet
\* written.
C4_UnderCountOnlyWhenCallsInterleave ==
  AllIdle =>
    \A s \in DOMAIN subjects, kind \in Kinds :
      LET stored == ChildrenOf(Store[TableOf(kind)], s)
      IN /\ subjects[s][CounterOf(kind)] <= stored
         /\ subjects[s][CounterOf(kind)] < stored => <<s, kind>> \in raced

\* Two createNote calls on one subject have returned; two notes are stored
\* and notesCount is 1
C4_Witness ==
  /\ AllIdle
  /\ ret.op = "createNote"
  /\ \E s \in DOMAIN subjects :
       /\ <<s, "note">> \in raced
       /\ ChildrenOf(notes, s) = 2
       /\ subjects[s].notesCount = 1

\* C7: a createFlashcards request that has failed has stored none of its
\* records and changed no subject counter; one that has succeeded has stored
\* every record and counted them on every stored subject of the batch.
C7_BatchCreationIsAllOrNothing ==
  ret.op = "createFlashcards" =>
    LET ids == {ret.id + i - 1 : i \in 1 .. Len(ret.data)}
    IN IF ret.result
       THEN /\ ids \subseteq DOMAIN flashcards
            /\ \A i \in 1 .. Len(ret.data) :
                 ret.data[i].subjectId \in DOMAIN subjects
                   => ret.data[i].subjectId \in ret.counted
       ELSE /\ ids \cap DOMAIN flashcards = {}
            /\ ret.counted = {}

\* Positions <<plan, task>> of the stored tasks
StoredTasks ==
  UNION {{<<p, i>> : i \in 1 .. Len(studyPlans[p].tasks)} :
           p \in 1 .. Len(studyPlans)}

TaskAt(pos) == studyPlans[pos[1]].tasks[pos[2]]

\* C8: a step updateStudyPlanTask(planId, taskId, {completed: true}) on a
\* stored plan that holds a task with id taskId leaves the plan fetched
\* afterwards with that task completed and otherwise as it was, every other
\* task of the plan as it was, and every other plan as it was.
C8_CompletingATaskChangesOnlyThatTask ==
  [][(/\ ret'.op = "updateStudyPlanTask"
      /\ ret'.data = [completed |-> TRUE]
      /\ GetStudyPlan(Store, ret'.id) # <<>>
      /\ \E i \in 1 .. Len(GetStudyPlan(Store, ret'.id)[1].tasks) :
           GetStudyPlan(Store, ret'.id)[1].tasks[i].id = ret'.taskId)
     => LET old     == GetStudyPlan(Store, ret'.id)[1]
            fetched == GetStudyPlan(Store', ret'.id)
        IN /\ fetched # <<>>
           /\ [fetched[1] EXCEPT !.tasks = old.tasks] = old
           /\ Len(fetched[1].tasks) = Len(old.tasks)
           /\ \E i \in 1 .. Len(old.tasks) :
                /\ old.tasks[i].id = ret'.taskId
                /\ fetched[1].tasks[i] =
                     [old.tasks[i] EXCEPT !.completed = TRUE]
                /\ \A j \in 1 .. Len(old.tasks) :
                     j # i => fetched[1].tasks[j] = old.tasks[j]
           /\ Len(studyPlans') = Len(studyPlans)
           /\ \A q \in 1 .. Len(studyPlans) :
                studyPlans[q].id # ret'.id => studyPlans'[q] = studyPlans[q]
    ]_vars

\* The stored tasks getDashboardStats may return for the day of the last call
EligibleAt ==
  {pos \in StoredTasks :
     ~TaskAt(pos).completed /\ ~StrLess(TaskAt(pos).date, ret.today)}

Occurrences(seq, x) == Cardinality({i \in 1 .. Len(seq) : seq[i] = x})

\* C9: the upcomingTasks of getDashboardStats are stored tasks, none of them
\* completed and none dated strictly before today; a stored task dated today
\* and not completed is returned unless five tasks dated today are returned.
C9_UpcomingExcludesCompletedAndPast ==
  ret.op = "getDashboardStats" =>
    LET up == ret.result.upcomingTasks
    IN /\ \A i \in 1 .. Len(up) :
            /\ ~up[i].completed
            /\ ~StrLess(up[i].date, ret.today)
            /\ \E pos \in StoredTasks : TaskAt(pos) = up[i]
       /\ \A pos \in StoredTasks :
            (~TaskAt(pos).completed /\ TaskAt(pos).date = ret.today)
              => \/ \E i \in 1 .. Len(up) : up[i] = TaskAt(pos)
                 \/ /\ Len(up) = UpcomingLimit
                    /\ \A i \in 1 .. Len(up) : up[i].date = ret.today

C9_Witness ==
  /\ ret.op = "getDashboardStats"
  /\ \E i \in 1 .. Len(ret.result.upcomingTasks) :
       ret.result.upcomingTasks[i].date = ret.today
  /\ \E pos \in StoredTasks :
       TaskAt(pos).completed /\ ~StrLess(TaskAt(pos).date, ret.today)
  /\ \E pos \in StoredTasks :
       ~TaskAt(pos).completed /\ StrLess(TaskAt(pos).date, ret.today)

\* C10: the upcomingTasks of getDashboardStats are in ascending order of
\* date, at most five, and eligible stored tasks; an eligible task that is
\* left out is dated no earlier than any task returned, and when fewer than
\* five tasks are eligible all of them are returned.
C10_UpcomingAreTheEarliestFive ==
  ret.op = "getDashboardStats" =>
    LET up == ret.result.upcomingTasks
        eligible(x) == Cardinality({pos \in EligibleAt : TaskAt(pos) = x})
    IN /\ \A i, j \in 1 .. Len(up) :
            i < j => ~StrLess(up[j].date, up[i].date)
       /\ Len(up) <= 5
       /\ \A i \in 1 .. Len(up) : Occurrences(up, up[i]) <= eligible(up[i])
       /\ \A pos \in EligibleAt :
            Occurrences(up, TaskAt(pos)) < eligible(TaskAt(pos))
              => \A i \in 1 .. Len(up) :
                   ~StrLess(TaskAt(pos).date, up[i].date)
       /\ Cardinality(EligibleAt) < 5 => Len(up) = Cardinality(EligibleAt)

C10_Witness ==
  /\ ret.op = "getDashboardStats"
  /\ Cardinality(EligibleAt) > 5
  /\ Len(ret.result.upcomingTasks) = 5
  /\ ret.result.upcomingTasks[1].date # ret.result.upcomingTasks[5].date
  /\ \E pos \in EligibleAt :
       /\ Occurrences(ret.result.upcomingTasks, TaskAt(pos)) = 0
       /\ pos[2] = 1

\* C11: the recentSummaries of getDashboardStats are stored summaries, no
\* summary twice, as many as are stored up to five, in descending order of
\* createdAt, and no stored summary left out is newer than one returned.
C11_RecentSummariesAreTheNewestFive ==
  ret.op = "getDashboardStats" =>
    LET recent == ret.result.recentSummaries
        stored == {summaries[k] : k \in DOMAIN summaries}
        given  == {recent[i] : i \in 1 .. Len(recent)}
    IN /\ given \subseteq stored
       /\ Cardinality(given) = Len(recent)
       /\ Len(recent) = IF Cardinality(stored) < 5
                        THEN Cardinality(stored) ELSE 5
       /\ \A i, j \in 1 .. Len(recent) :
            i < j => recent[i].createdAt >= recent[j].createdAt
       /\ \A x \in stored \ given, y \in given : x.createdAt <= y.createdAt

\* Six summaries of two subjects and of two creation times are stored, and
\* the oldest is left out
C11_Witness ==
  /\ ret.op = "getDashboardStats"
  /\ Cardinality(DOMAIN summaries) = 6
  /\ Len(ret.result.recentSummaries) = 5
  /\ \E i, j \in 1 .. 5 :
       /\ ret.result.recentSummaries[i].subjectId
            # ret.result.recentSummaries[j].subjectId
       /\ ret.result.recentSummaries[i].createdAt
            # ret.result.recentSummaries[j].createdAt
  /\ \E k \in DOMAIN summaries :
       /\ \A i \in 1 .. 5 : ret.result.recentSummaries[i] # summaries[k]
       /\ ret.result.recentSummaries[1].createdAt > summaries[k].createdAt

\* C12: generateFlashcards never returns more than 10 flashcards, whatever
\* count is asked and whatever the provider replies, and so a request to
\* POST /api/ai/flashcards never stores more than 10.
C12_NeverMoreThanTenFlashcards ==
  /\ (ret.op = "generateFlashcards" /\ ret.result.ok
        /\ ret.result.value.t = "array")
       => Len(ret.result.value.a) <= 10
  /\ ret.op = "POST /api/ai/flashcards" => ret.stored <= 10

\* C13: generateQuestions never returns more than 8 questions, whatever
\* count is asked and whatever the provider replies, and so a request to
\* POST /api/ai/questions never stores more than 8.
C13_NeverMoreThanEightQuestions ==
  /\ (ret.op = "generateQuestions" /\ ret.result.ok
        /\ ret.result.value.t = "array")
       => Len(ret.result.value.a) <= 8
  /\ ret.op = "POST /api/ai/questions" => ret.stored <= 8

\* C14: for every reply that parses to an object, whatever fields it omits,
\* summarizeContent returns without error and all five fields are defined: a
\* list field the reply lacks is the empty list, a fullSummary the reply
\* lacks or has empty is "Summary not available."; and so no stored summary
\* has an empty or missing fullSummary.
C14_SummaryFieldsAlwaysDefined ==
  /\ (ret.op = "summarizeContent" /\ ret.reply.kind \in {"empty", "json"})
       => /\ ret.result.ok
          /\ \A f \in ListFields \cup {"fullSummary"} :
               ret.result.value[f] \notin {Undefined, Null}
          /\ \A f \in ListFields :
               Property(JSONParse(ret.reply).value, f) = Undefined
                 => ret.result.value[f] = Arr(<<>>)
          /\ Property(JSONParse(ret.reply).value, "fullSummary")
               \in {Undefined, Str("")}
               => ret.result.value.fullSummary = Str("Summary not available.")
  /\ \A k \in DOMAIN summaries :
       summaries[k].fullSummary \notin {Undefined, Null, Str("")}

\* A summary stored from a reply without fullSummary, and a call whose reply
\* is the empty object
C14_Witness ==
  /\ ret.op = "summarizeContent"
  /\ ret.reply = Json(Obj({}))
  /\ ret.result = Returned(SummaryFields(Obj({})))
  /\ ret.result.value.fullSummary = Str("Summary not available.")
  /\ \E k \in DOMAIN summaries :
       summaries[k].fullSummary = Str("Summary not available.")

\* C15: for every reply that parses, generateStudyPlan returns without error
\* and every returned task has a non-empty topic, subject, duration, priority
\* and date: the reply's value when it has one, otherwise "Study session",
\* "General", "1 hour", "medium" and today; for every shape of the reply's
\* tasks entry.
C15_PlanTasksAlwaysNormalized ==
  (ret.op = "generateStudyPlan" /\ ret.reply.kind \in {"empty", "json"})
    => /\ ret.result.ok
       /\ LET given == OrElse(Property(JSONParse(ret.reply).value, "tasks"),
                              Arr(<<>>)).a
              tasks == ret.result.value.tasks
              Fallback(f) ==
                CASE f = "topic" -> Str("Study session")
                  [] f = "subject" -> Str("General")
                  [] f = "duration" -> Str("1 hour")
                  [] f = "priority" -> Str("medium")
                  [] f = "date" -> DateStr(ret.today)
          IN /\ Len(tasks) = Len(given)
             /\ \A i \in 1 .. Len(tasks), f \in TaskFields :
                  /\ Truthy(tasks[i][f])
                  /\ tasks[i][f] = IF Truthy(Property(given[i], f))
                                   THEN Property(given[i], f)
                                   ELSE Fallback(f)

C20_MissingIdIsAbsentAnd404 ==
  [][LET table == CASE ret'.op \in {"GET /api/subjects/:id",
                                    "PATCH /api/subjects/:id",
                                    "DELETE /api/subjects/:id"} -> subjects
                    [] ret'.op = "GET /api/notes/:id" -> notes
                    [] ret'.op = "GET /api/summaries/:id" -> summaries
                    [] ret'.op = "PATCH /api/flashcards/:id" -> flashcards
     IN (/\ ret'.op \in {"GET /api/subjects/:id", "PATCH /api/subjects/:id",
                         "DELETE /api/subjects/:id", "GET /api/notes/:id",
                         "GET /api/summaries/:id",
                         "PATCH /api/flashcards/:id"}
         /\ ret'.cause # "storage"
         /\ ret'.id \notin DOMAIN table)
          => /\ ret'.status = 404
             /\ ret'.cause = "missing"
             /\ IF ret'.op = "DELETE /api/subjects/:id"
                THEN ret'.result = FALSE
                ELSE ret'.result = <<>>]_vars

\* A PATCH addressed to a subject that was stored and has been deleted, and
\* is answered 404 while another subject is stored
C20_Witness ==
  /\ ret.op = "PATCH /api/subjects/:id"
  /\ ret.id > 0
  /\ ret.id \notin DOMAIN subjects
  /\ ret.status = 404
  /\ ret.result = <<>>
  /\ subjects # EmptyMap

\* The routes that check the request body against a schema or for fields
ValidatingRoutes ==
  {"POST /api/subjects", "POST /api/notes", "POST /api/notes/upload",
   "POST /api/ai/summarize", "POST /api/ai/chat", "POST /api/ai/flashcards",
   "POST /api/ai/questions", "POST /api/ai/study-plan"}

\* C17: a request whose body fails validation is answered 400 on every
\* validating route, the five AI routes included, and changes no stored
\* state.
C17_InvalidBodyIs400 ==
  [][(ret'.op \in ValidatingRoutes /\ ret'.cause = "validation")
       => /\ ret'.status = 400
          /\ UNCHANGED <<subjects, notes, summaries, flashcards, questions,
                         studyPlans>>]_vars

\* C18: a request during which the storage backend or the AI provider fails
\* is answered 500, on every route, POST /api/subjects and POST /api/notes
\* included.
C18_FailureIs500 ==
  ("cause" \in DOMAIN ret /\ ret.cause \in {"storage", "ai"})
    => ret.status = 500

\* C19: a successful request that creates a stored record is answered 201
\* (subjects, notes, uploaded notes, and the summaries, flashcards, questions
\* and study plans of the AI routes), and a successful deletion 204.
C19_CreationIs201DeletionIs204 ==
  /\ (/\ ret.op \in {"POST /api/subjects", "POST /api/notes",
                     "POST /api/notes/upload", "POST /api/ai/summarize",
                     "POST /api/ai/study-plan"}
      /\ ret.cause = "none")
       => ret.status = 201
  /\ (/\ ret.op \in {"POST /api/ai/flashcards", "POST /api/ai/questions"}
      /\ ret.cause = "none" /\ ret.stored > 0)
       => ret.status = 201
  /\ (ret.op = "DELETE /api/subjects/:id" /\ ret.cause = "none")
       => ret.status = 204

\* C21: each difficulty update of a stored flashcard adds one to its
\* timesReviewed, on both backends, so that k updates of a new flashcard
\* leave it at k.
C21_EachDifficultyUpdateAddsOne ==
  [][ret'.op = "updateFlashcard"
       => flashcards'[ret'.id].timesReviewed
            = flashcards[ret'.id].timesReviewed + 1]_vars

AiRoutes ==
  {"POST /api/ai/summarize", "POST /api/ai/chat", "POST /api/ai/flashcards",
   "POST /api/ai/questions", "POST /api/ai/study-plan"}

Collections == <<subjects, notes, summaries, flashcards, questions, studyPlans>>

\* The step stored what the gateway generated for the route that answered
GeneratedResultPersisted ==
  CASE ret'.op = "POST /api/ai/summarize" ->
         /\ ret'.id \in DOMAIN summaries' \ DOMAIN summaries
    [] ret'.op = "POST /api/ai/flashcards" ->
         Cardinality(DOMAIN flashcards')
           = Cardinality(DOMAIN flashcards) + ret'.stored
    [] ret'.op = "POST /api/ai/questions" ->
         Cardinality(DOMAIN questions')
           = Cardinality(DOMAIN questions) + ret'.stored
    [] ret'.op = "POST /api/ai/study-plan" ->
         /\ ret'.id \in DOMAIN studyPlans' \ DOMAIN studyPlans
         /\ Len(studyPlans'[ret'.id].tasks) = ret'.stored
    [] OTHER -> Collections' # Collections

\* A rejected body stops the request before the gateway and before storage,
\* and a failed gateway call stops it before storage
FailureStopsTheRequest ==
  /\ ret'.cause = "validation" =>
        ~ret'.called /\ UNCHANGED <<Collections, nextId>>
  /\ ret'.cause = "ai" =>
        ret'.called /\ UNCHANGED <<Collections, nextId>>

\* C22 as stated: in each of the five AI endpoints a request that fails
\* validation reaches neither the gateway nor storage, a request whose
\* gateway call fails writes nothing, and a request answered with success
\* has had its generated result stored.
C22_SuccessImpliesPersisted ==
  [][ret'.op \in AiRoutes
       => /\ FailureStopsTheRequest
          /\ ret'.status = 200 => GeneratedResultPersisted]_vars

\* C22, amended: the same for summarize, flashcards, questions and
\* study-plan; POST /api/ai/chat validates, calls the gateway and answers,
\* and never writes to storage.
C22_SuccessImpliesPersistedExceptChat ==
  [][ret'.op \in AiRoutes
       => /\ FailureStopsTheRequest
          /\ IF ret'.op = "POST /api/ai/chat"
             THEN UNCHANGED <<Collections, nextId>>
             ELSE ret'.status = 200 => GeneratedResultPersisted]_vars

\* A summary was stored and answered, after a gateway failure left storage
\* alone
C22_Witness ==
  /\ ret.op = "POST /api/ai/summarize"
  /\ ret.status = 200
  /\ ret.id \in DOMAIN summaries
  /\ nextId.summary = 2

\* C23: every stored note names a subject that is stored, in every state
\* reached by posting and uploading notes and by creating and deleting
\* subjects.
C23_EveryNoteNamesAStoredSubject ==
  \A n \in DOMAIN notes : notes[n].subjectId \in DOMAIN subjects

\* The plan the request names is stored and holds a task with the id it names
HoldsTask(planId, taskId) ==
  /\ GetStudyPlan(Store, planId) # <<>>
  /\ \E i \in 1 .. Len(GetStudyPlan(Store, planId)[1].tasks) :
       GetStudyPlan(Store, planId)[1].tasks[i].id = taskId

\* C24: PATCH /api/study-plans/:planId/tasks/:taskId answers 404 whenever no
\* plan planId is stored or the stored plan holds no task taskId, and in both
\* cases leaves every plan as it was.
C24_UnknownPlanOrTaskIs404 ==
  [][(/\ ret'.op = "PATCH /api/study-plans/:planId/tasks/:taskId"
      /\ ret'.cause # "storage"
      /\ ~HoldsTask(ret'.id, ret'.taskId))
     => /\ ret'.status = 404
        /\ studyPlans' = studyPlans]_vars

\* C25: in MemStorage, whatever the interleaving of concurrent requests at
\* their awaits, two createFlashcards batches on one subject included, every
\* counter of a stored subject is the number of stored records it counts.
C25_MemCountersNeverUnderCount ==
  backend = "mem" =>
    \A s \in DOMAIN subjects, kind \in Kinds :
      subjects[s][CounterOf(kind)] = ChildrenOf(Store[TableOf(kind)], s)

\* Two batches on one subject have returned after their items interleaved:
\* the last to return created the first and the third flashcard, the other
\* one the second in between
C25_Witness ==
  /\ AllIdle
  /\ ret.op = "createFlashcards"
  /\ ret.ids = {1, 3}
  /\ \E s \in DOMAIN subjects :
       /\ \A k \in 1 .. 3 :
            k \in DOMAIN flashcards /\ flashcards[k].subjectId = s
       /\ subjects[s].flashcardsCount = 3

\* C26: a deleteSubject(id) that finds no subject id stored returns false,
\* which DELETE /api/subjects/:id answers with 404, and leaves every
\* collection as it was.
C26_DeletingAMissingSubjectChangesNothing ==
  [][(/\ ret'.op = "DELETE /api/subjects/:id"
      /\ ret'.cause # "storage"
      /\ ret'.id \notin DOMAIN subjects)
     => /\ ~ret'.result
        /\ ret'.status = 404
        /\ UNCHANGED Collections]_vars

\* C27: in DatabaseStorage a counter is decremented once for each record
\* removed.  Creations here run one at a time and count exactly, so once
\* every deletion has returned, concurrent deletions of one id included,
\* each counter of a stored subject is the number of stored records it
\* counts.
C27_OneDecrementPerRemovedRecord ==
  (backend = "db" /\ AllIdle /\ ret.op \in Deletions) =>
    \A s \in DOMAIN subjects, kind \in Kinds :
      subjects[s][CounterOf(kind)] = ChildrenOf(Store[TableOf(kind)], s)

\* C28: in DatabaseStorage, when a deleteSubject(id) call returns, no note,
\* summary, flashcard or question with subjectId = id is stored, also when
\* creations for that subject ran between the statements of the cascade.
C28_NoChildOutlivesTheCascade ==
  [][\A r \in Requests :
       (pending[r].pc = "cascade" /\ pending'[r] = Idle)
         => \A i \in 1 .. Len(CascadeTables) :
              ChildrenOf(Store'[CascadeTables[i]], pending[r].id) = 0]_vars

\* C29: the tasks of a stored plan have non-empty, pairwise distinct ids in
\* every state reached by createStudyPlan and by updateStudyPlanTask with
\* arbitrary bodies.
C29_TaskIdsStayDistinct ==
  \A p \in 1 .. Len(studyPlans) :
    \A i, j \in 1 .. Len(studyPlans[p].tasks) :
      /\ studyPlans[p].tasks[i].id # 0
      /\ i # j => studyPlans[p].tasks[i].id # studyPlans[p].tasks[j].id

\* C30: once handleSubmit has set isProcessing, it is set back to false on
\* every path on which the requests the page issued are answered; while
\* isProcessing is set, processingProgress never decreases and is one of 20,
\* 40, 60 and 100; and it becomes 100 only in the step in which
\* summarization succeeded.
C30_ProcessingEndsAndProgressGrows ==
  /\ page.isProcessing ~> ~page.isProcessing
  /\ [][/\ page.isProcessing =>
             /\ page'.processingProgress >= page.processingProgress
             /\ page.processingProgress \in {20, 40, 60}
             /\ page'.processingProgress \in {20, 40, 60, 100}
        /\ (page'.processingProgress = 100 /\ page.processingProgress # 100)
             => /\ page.awaiting = "summarize"
                /\ page'.toast = "Summary created!"]_vars

\* A submission went through upload, analysis and summarization and ended
\* at 100 with isProcessing false
C30_Witness ==
  /\ ~page.isProcessing
  /\ page.processingProgress = 100
  /\ page.toast = "Summary created!"
  /\ page.location # "/upload"

====
